---- MODULE Spec2Model ----
(***************************************************************************)
(* G13_Linux: the input/navigation layer (g13_linux/input/handler.py),    *)
(* the daemon's threads around the screen manager (g13_linux/daemon.py),   *)
(* the screens (g13_linux/menu), the LCD canvas (g13_linux/lcd/canvas.py), *)
(* the end of the daemon's run, the profile manager                        *)
(* (g13_linux/gui/models/profile_manager.py) with the REST server's reads  *)
(* (g13_linux/server.py), and the LCD controller's pixel packing           *)
(* (g13_ops/hardware/lcd.py).                                              *)
(*                                                                         *)
(* Time is counted in milliseconds: time.time() is the variable now, and   *)
(* the float constants of the source (0.4 s, 0.15 s, 0.01 s) are written   *)
(* in milliseconds.  A HID report is a sequence of bytes; Python's data[i] *)
(* is Byte(data, i).  Python's None is the string "None".                  *)
(***************************************************************************)
EXTENDS Integers, Sequences, FiniteSets, TLC

\* ---------------------------------------------------------------- bounds
\* The clock stops the model after MaxTicks read timeouts' worth of time.
MaxTicks == 7
\* The render loop and the poll thread are followed for this many rounds.
MaxRounds == 2
\* The canvas is followed for this many drawing operations.
MaxCanvasOps == 2
\* Profiles are saved and imported while the profiles directory holds at
\* most this many profiles.
MaxProfiles == 2
\* Iterations of the render loop in a run.
MaxRenderTicks == 3
\* Poll threads that start() creates in a run.
MaxThreads == 2
\* The loop of draw_line is followed in blocks of this many iterations.
LineBlockLen == 16

\* ------------------------------------------------- InputHandler constants
STICK_CENTER == 128
STICK_THRESHOLD == 50
STICK_REPEAT_DELAY == 400
STICK_REPEAT_RATE == 150
READ_TIMEOUT_MS == 100
ERROR_SLEEP_MS == 10
HANDLER_MIN_LEN == 8
DECODER_MIN_LEN == 8

MaxTime == MaxTicks * READ_TIMEOUT_MS

Directions == {"STICK_UP", "STICK_DOWN", "STICK_LEFT", "STICK_RIGHT"}

\* The threads that reach the screen manager.
Threads == {"main", "render", "poll"}

\* ------------------------------------------------------------------ state
VARIABLES
    now,                \* time.time(), ms
    repeat_direction,   \* InputHandler._repeat_direction
    repeat_start_time,  \* InputHandler._repeat_start_time
    last_repeat_time,   \* InputHandler._last_repeat_time
    stick_pressed,      \* InputHandler._stick_pressed
    button_state,       \* InputHandler._button_state (a dict: name -> bool)
    pollThread,         \* the thread running _poll_loop: "alive" or "dead"
    \* history of the poll loop, read only by the properties
    step,               \* what the last poll iteration was
    emitted,            \* the events handed to the callback in that iteration
    caught,             \* the failure that iteration caught, or "none"
    lastValid,          \* the last report the decoder accepted, <<>> if none
    failed,             \* an iteration before that one caught a failure
    quiet,              \* only read timeouts since the held direction began
    repeatTimes,        \* while quiet: the times of the repeat events
    \* the daemon's threads (G13Daemon.run, _render_loop, the poll thread)
    mainPc,             \* where the main thread is in G13Daemon.run
    renderPc,           \* where the render thread is in _render_loop
    pollPc,             \* where the poll thread is when it dispatches
    smOp,               \* per thread: the ScreenManager operation it is in
    dirty,              \* the active screen's dirty flag
    frames,             \* frames handed to the LCD
    ticks,              \* iterations of _render_loop begun
    inputs,             \* events dispatched to the navigation controller
    key_count,          \* G13Daemon._key_count
    \* the screen manager and its screens (menu/manager.py, menu/screens)
    stack,              \* ScreenManager: the navigation stack, bottom first
    overlay,            \* ScreenManager: the overlay slot, NoScreen if empty
    overlay_expiry,     \* ScreenManager: when the overlay expires, ms
    uiNow,              \* time.time() as the screen manager reads it, ms
    \* history of the last screen-manager operation, read by the properties
    navOp,              \* which operation it was
    navEvent,           \* the navigation event it dispatched, or "None"
    navOut,             \* what it delivered, called, returned and drew
    run,                \* the STICK_DOWN events in a row, and where they began
    shown,              \* the last toast shown: when, how long, input since
    \* the event decoder as G13Daemon._handle_raw_report uses it
    last_state,         \* EventDecoder: the buttons of the last report decoded
    broadcast,          \* the button events the last report had broadcast
    diffPrev,           \* history: the buttons of the report before that
    \* the LCD canvas (lcd/canvas.py)
    canvas,             \* the display's Canvas
    canvasPrev,         \* history: the canvas before its last operation
    canvasCall,         \* history: that operation, its arguments and result
    canvasOps,          \* the drawing operations done on the canvas
    \* the end of G13Daemon.run (daemon.py)
    running,            \* G13Daemon._running
    runPc,              \* where the main thread is in run()
    stopPc,             \* per thread: where it is in stop()
    cleaned,            \* the cleanup steps done so far
    signalled,          \* _handle_signal has run
    loops,              \* iterations of run()'s main loop
    \* the profile manager (gui/models/profile_manager.py)
    files,              \* the profiles directory: file stem -> content
    current_profile,    \* ProfileManager.current_profile
    current_name,       \* ProfileManager.current_name
    profCall,           \* history: the last call, what it returned
    profBefore,         \* history: the manager and the call before it
    \* the device as its two readers see it
    pending,            \* the reports delivered and not yet read
    stream,             \* history: all the reports delivered
    seen,               \* history: the reports _poll_loop has read
    events,             \* history: the events the handler has emitted
    \* the render thread (G13Daemon._render_loop)
    renderRunning,      \* G13Daemon._running as the render thread reads it
    renderLoopPc,       \* where the render thread is in _render_loop
    renderTicks,        \* iterations of the loop begun
    renderLast,         \* history: how the last iteration ended, and what it left
    \* the life of the poll thread (InputHandler.start, stop, _poll_loop)
    handler_running,    \* InputHandler._running
    handler_thread,     \* InputHandler._thread: the thread it names, 0 for None
    loopPc,             \* per thread: where it is in _poll_loop
    stopCallPc,         \* where the caller of stop() is
    joinTimedOut,       \* history: a join of stop() has timed out
    iterations,         \* per thread: the iterations of its loop that have finished
    \* the brightness screen and the LED (menu/screens/led_settings.py)
    led_level,          \* the backlight brightness the LED controller holds, 0-100
    screen_brightness,  \* BrightnessScreen.brightness
    brightOpen,         \* a BrightnessScreen is on top of the stack
    brightAtOpen,       \* history: the LED brightness when the screen was opened
    brightLast,         \* history: the last event the screen has handled
    ledBefore           \* history: the LED brightness before that event

handlerVars == <<repeat_direction, repeat_start_time, last_repeat_time,
                 stick_pressed, button_state>>
pollVars == <<now, repeat_direction, repeat_start_time, last_repeat_time,
              stick_pressed, button_state, pollThread, step, emitted, caught,
              lastValid, failed, quiet, repeatTimes>>
daemonVars == <<mainPc, renderPc, pollPc, smOp, dirty, frames, ticks, inputs,
                key_count>>
uiVars == <<stack, overlay, overlay_expiry, uiNow, navOp, navEvent, navOut,
            run, shown>>
decoderVars == <<last_state, broadcast, diffPrev>>
canvasVars == <<canvas, canvasPrev, canvasCall, canvasOps>>
stopVars == <<running, runPc, stopPc, cleaned, signalled, loops>>
profileVars == <<files, current_profile, current_name, profCall, profBefore>>
readerVars == <<pending, stream, seen, events>>
renderLoopVars == <<renderRunning, renderLoopPc, renderTicks, renderLast>>
lifeVars == <<handler_running, handler_thread, loopPc, stopCallPc,
             joinTimedOut, iterations>>
brightVars == <<led_level, screen_brightness, brightOpen, brightAtOpen,
               brightLast, ledBefore>>
lateVars == <<renderLoopVars, lifeVars, brightVars>>
vars == <<pollVars, daemonVars, uiVars, decoderVars, canvasVars, stopVars,
          profileVars, readerVars, lateVars>>

\* ------------------------------------------------------------ HID reports
Byte(data, i) == data[i + 1]
\* bool(byte & (1 << pos))
BitSet(byte, pos) == (byte \div (2 ^ pos)) % 2 = 1

\* An 8-byte report: the stick axes are bytes 1 and 2, the buttons the
\* navigation layer reads are in bytes 6 and 7.
MkReport(x, y, b6, b7) == <<1, x, y, 0, 0, 0, b6, b7>>

\* EventDecoder.decode_report: rejects (ValueError) a report shorter than
\* the minimum length, otherwise gives the axes and the raw bytes.
DecodeReport(data) ==
    IF Len(data) < DECODER_MIN_LEN
    THEN [ok |-> FALSE, joystick_x |-> 0, joystick_y |-> 0, raw_data |-> data]
    ELSE [ok |-> TRUE, joystick_x |-> Byte(data, 1),
          joystick_y |-> Byte(data, 2), raw_data |-> data]

\* ------------------------------------------------------------ InputHandler
\* The handler's fields as a record h, with the events handed to the
\* callback (out) and whether a callback failure was caught (cb_failed).
HandlerRec ==
    [repeat_direction |-> repeat_direction,
     repeat_start_time |-> repeat_start_time,
     last_repeat_time |-> last_repeat_time,
     stick_pressed |-> stick_pressed,
     button_state |-> button_state,
     out |-> <<>>, cb_failed |-> FALSE]

\* _emit: the callback is called; what it raises is caught and logged.
Emit(h, event, cbRaises) ==
    [h EXCEPT !.out = Append(@, event), !.cb_failed = @ \/ cbRaises]

\* Mutant of StickDirection: the X axis is tested first.
StickDirectionXFirst(x, y) ==
    IF x < STICK_CENTER - STICK_THRESHOLD THEN "STICK_LEFT"
    ELSE IF x > STICK_CENTER + STICK_THRESHOLD THEN "STICK_RIGHT"
    ELSE IF y < STICK_CENTER - STICK_THRESHOLD THEN "STICK_UP"
    ELSE IF y > STICK_CENTER + STICK_THRESHOLD THEN "STICK_DOWN"
    ELSE "None"

\* Mutant of StickDirection: the threshold is not applied.
StickDirectionNoDeadZone(x, y) ==
    IF y < STICK_CENTER THEN "STICK_UP"
    ELSE IF y > STICK_CENTER THEN "STICK_DOWN"
    ELSE IF x < STICK_CENTER THEN "STICK_LEFT"
    ELSE IF x > STICK_CENTER THEN "STICK_RIGHT"
    ELSE "None"

\* The direction _process_thumbstick computes from (x, y).
StickDirection(x, y) ==
    IF y < STICK_CENTER - STICK_THRESHOLD THEN "STICK_UP"
    ELSE IF y > STICK_CENTER + STICK_THRESHOLD THEN "STICK_DOWN"
    ELSE IF x < STICK_CENTER - STICK_THRESHOLD THEN "STICK_LEFT"
    ELSE IF x > STICK_CENTER + STICK_THRESHOLD THEN "STICK_RIGHT"
    ELSE "None"

\* Mutant of ProcessThumbstick: every report that shows a direction emits
\* it, held or not.
ProcessThumbstickLevel(h, x, y, t, cbRaises) ==
    LET direction == StickDirection(x, y) IN
    IF direction # "None"
    THEN [Emit(h, direction, cbRaises) EXCEPT
             !.repeat_direction = direction,
             !.repeat_start_time = t,
             !.last_repeat_time = t]
    ELSE [h EXCEPT !.repeat_direction = "None"]

\* Mutant of ProcessThumbstick: the return to centre does not clear the
\* held direction.
ProcessThumbstickNoClear(h, x, y, t, cbRaises) ==
    LET direction == StickDirection(x, y) IN
    IF direction # h.repeat_direction /\ direction # "None"
    THEN [Emit(h, direction, cbRaises) EXCEPT
             !.repeat_direction = direction,
             !.repeat_start_time = t,
             !.last_repeat_time = t]
    ELSE h

ProcessThumbstick(h, x, y, t, cbRaises) ==
    LET direction == StickDirection(x, y) IN
    IF direction # h.repeat_direction
    THEN IF direction # "None"
         THEN [Emit(h, direction, cbRaises) EXCEPT
                  !.repeat_direction = direction,
                  !.repeat_start_time = t,
                  !.last_repeat_time = t]
         ELSE [h EXCEPT !.repeat_direction = "None"]
    ELSE h

\* Mutant of CheckStickRepeat: the initial delay is not waited for.
CheckStickRepeatNoDelay(h, t, cbRaises) ==
    IF h.repeat_direction = "None" THEN h
    ELSE IF t - h.last_repeat_time >= STICK_REPEAT_RATE
         THEN [Emit(h, h.repeat_direction, cbRaises) EXCEPT
                  !.last_repeat_time = t]
         ELSE h

CheckStickRepeat(h, t, cbRaises) ==
    IF h.repeat_direction = "None" THEN h
    ELSE IF t - h.repeat_start_time < STICK_REPEAT_DELAY THEN h
    ELSE IF t - h.last_repeat_time >= STICK_REPEAT_RATE
         THEN [Emit(h, h.repeat_direction, cbRaises) EXCEPT
                  !.last_repeat_time = t]
         ELSE h

ProcessStickButton(h, data, cbRaises) ==
    IF Len(data) < HANDLER_MIN_LEN THEN h
    ELSE LET is_pressed == BitSet(Byte(data, 7), 3) IN
         [(IF is_pressed /\ ~h.stick_pressed
           THEN Emit(h, "STICK_PRESS", cbRaises) ELSE h)
          EXCEPT !.stick_pressed = is_pressed]

\* button_map of _process_buttons, in its iteration order.
BUTTON_MAP ==
    << [name |-> "BD",   byte_idx |-> 6, bit_pos |-> 0, event |-> "BUTTON_BD"],
       [name |-> "LEFT", byte_idx |-> 7, bit_pos |-> 1, event |-> "BUTTON_LEFT"],
       [name |-> "M1",   byte_idx |-> 6, bit_pos |-> 5, event |-> "BUTTON_M1"],
       [name |-> "M2",   byte_idx |-> 6, bit_pos |-> 6, event |-> "BUTTON_M2"],
       [name |-> "M3",   byte_idx |-> 6, bit_pos |-> 7, event |-> "BUTTON_M3"],
       [name |-> "MR",   byte_idx |-> 7, bit_pos |-> 0, event |-> "BUTTON_MR"] >>

\* self._button_state.get(name, False)
WasPressed(bs, name) == IF name \in DOMAIN bs THEN bs[name] ELSE FALSE

\* self._button_state[name] = is_pressed
SetButton(bs, name, is_pressed) ==
    [n \in (DOMAIN bs) \cup {name} |-> IF n = name THEN is_pressed ELSE bs[n]]

\* Mutant of ProcessOneButton: an event on every change, release included.
ProcessOneButtonOnChange(h, data, e, cbRaises) ==
    LET is_pressed == BitSet(Byte(data, e.byte_idx), e.bit_pos)
        was_pressed == WasPressed(h.button_state, e.name)
    IN [(IF is_pressed # was_pressed
         THEN Emit(h, e.event, cbRaises) ELSE h)
        EXCEPT !.button_state = SetButton(h.button_state, e.name, is_pressed)]

\* One pass of the loop body of _process_buttons, for entry e of the map.
ProcessOneButton(h, data, e, cbRaises) ==
    LET is_pressed == BitSet(Byte(data, e.byte_idx), e.bit_pos)
        was_pressed == WasPressed(h.button_state, e.name)
    IN [(IF is_pressed /\ ~was_pressed
         THEN Emit(h, e.event, cbRaises) ELSE h)
        EXCEPT !.button_state = SetButton(h.button_state, e.name, is_pressed)]

RECURSIVE ProcessButtonsFrom(_, _, _, _)
ProcessButtonsFrom(h, data, i, cbRaises) ==
    IF i > Len(BUTTON_MAP) THEN h
    ELSE ProcessButtonsFrom(ProcessOneButton(h, data, BUTTON_MAP[i], cbRaises),
                            data, i + 1, cbRaises)

ProcessButtons(h, data, cbRaises) ==
    IF Len(data) < HANDLER_MIN_LEN THEN h
    ELSE ProcessButtonsFrom(h, data, 1, cbRaises)

\* Mutant of ProcessReport: no return after the decoder's rejection.
ProcessReportNoReturn(h, data, t, cbRaises) ==
    LET state == DecodeReport(data) IN
    ProcessButtons(
        ProcessStickButton(
            ProcessThumbstick(h, state.joystick_x, state.joystick_y,
                              t, cbRaises),
            state.raw_data, cbRaises),
        state.raw_data, cbRaises)

\* _process_report: a report the decoder rejects is logged and dropped.
ProcessReport(h, data, t, cbRaises) ==
    LET state == DecodeReport(data) IN
    IF ~state.ok THEN h
    ELSE ProcessButtons(
             ProcessStickButton(
                 ProcessThumbstick(h, state.joystick_x, state.joystick_y,
                                   t, cbRaises),
                 state.raw_data, cbRaises),
             state.raw_data, cbRaises)

\* Mutant of PollLoopOnException: the exception ends the thread.
PollLoopNoExcept == "dead"

\* The except clause of _poll_loop: the exception is logged, the thread
\* sleeps and goes on with the next iteration.
PollLoopOnException == "alive"

\* ================================================================= screens
\* The screen manager (menu/manager.py), the navigation controller
\* (input/navigation.py) and the screens of menu/screens.  Times are in
\* milliseconds.

\* -------------------------------------------------------- screen constants
VISIBLE_ITEMS == 4
NUM_PRESETS == 10
RENDER_INTERVAL == 50
DEFAULT_TOAST == 2000
MODE_TOAST == 1500
SHORT_TOAST == 1500
LONG_TOAST == 2000

NavEvents == {"STICK_UP", "STICK_DOWN", "STICK_LEFT", "STICK_RIGHT",
              "STICK_PRESS", "BUTTON_BD", "BUTTON_M1"}

\* ----------------------------------------------------------------- bounds
\* The longest menu of the generic menu screens.
MaxItems == 5
\* The screen-manager clock stops the timed model after this many frames.
MaxUiTicks == 6
\* Direct calls of push stop at this depth of the stack.
MaxDepth == 4

\* The step of the screen-manager clock, and where it stops.
TimeStep == RENDER_INTERVAL \div 2
MaxUiTime == MaxUiTicks * RENDER_INTERVAL

Range(seq) == {seq[i] : i \in DOMAIN seq}

\* ------------------------------------------------------------------ items
\* menu/items.py, MenuItem: action and submenu name the callable, "None"
\* when the item has none.
MenuItem(id, action, submenu, enabled) ==
    [id |-> id, action |-> action, submenu |-> submenu, enabled |-> enabled]

\* A screen object.  Every screen has the dirty flag of the Screen base
\* class; selected_index and scroll_offset belong to MenuScreen, selected
\* to ColorPickerScreen and ConfirmDialog, has_cancel says whether a
\* ConfirmDialog was given on_cancel.
Screen(name, items) ==
    [name |-> name, items |-> items, selected_index |-> 0,
     scroll_offset |-> 0, selected |-> 0, has_cancel |-> FALSE,
     is_dirty |-> TRUE]

\* The empty overlay slot (Python's None).
NoScreen == [Screen("None", <<>>) EXCEPT !.is_dirty = FALSE]

MainMenuItems ==
    << MenuItem("profiles", "None", "profiles", TRUE),
       MenuItem("macros", "None", "macros", TRUE),
       MenuItem("led", "None", "led", TRUE),
       MenuItem("settings", "None", "settings", TRUE),
       MenuItem("info", "None", "info", TRUE) >>

\* MacrosScreen._build_items with no macro stored.
MacrosItems ==
    << MenuItem("no_macros", "None", "None", FALSE),
       MenuItem("record", "record_macro", "None", TRUE) >>

LEDSettingsItems ==
    << MenuItem("color", "None", "color", TRUE),
       MenuItem("brightness", "None", "brightness", TRUE),
       MenuItem("effect", "None", "effects", TRUE),
       MenuItem("off", "turn_off", "None", TRUE) >>

EffectSelectItems ==
    << MenuItem("solid", "set_effect", "None", TRUE),
       MenuItem("pulse", "set_effect", "None", TRUE),
       MenuItem("rainbow", "set_effect", "None", TRUE),
       MenuItem("fade", "set_effect", "None", TRUE),
       MenuItem("none", "stop_effect", "None", TRUE) >>

SettingsItems ==
    << MenuItem("clock", "None", "clock_settings", TRUE),
       MenuItem("idle_timeout", "None", "timeout", TRUE),
       MenuItem("stick_sensitivity", "cycle_sensitivity", "None", TRUE),
       MenuItem("reset", "reset_defaults", "None", TRUE) >>

ClockSettingsItems ==
    << MenuItem("format_24", "set_format", "None", TRUE),
       MenuItem("format_12", "set_format", "None", TRUE),
       MenuItem("show_seconds", "toggle_seconds", "None", TRUE),
       MenuItem("show_date", "toggle_date", "None", TRUE) >>

TimeoutSettingsItems ==
    << MenuItem("t_0", "set_timeout", "None", TRUE),
       MenuItem("t_15", "set_timeout", "None", TRUE),
       MenuItem("t_30", "set_timeout", "None", TRUE),
       MenuItem("t_60", "set_timeout", "None", TRUE),
       MenuItem("t_300", "set_timeout", "None", TRUE) >>

\* ConfirmDialog.__init__: the choice starts on No.
NewConfirmDialogYes(hasCancel) ==
    [Screen("confirm", <<>>) EXCEPT !.has_cancel = hasCancel, !.selected = 1]
NewConfirmDialog(hasCancel) ==
    [Screen("confirm", <<>>) EXCEPT !.has_cancel = hasCancel]

\* G13Daemon.connect: the idle screen is created and handed to the
\* navigation controller, which makes it the bottom of the stack.
ConnectStackMenu == <<Screen("main", MainMenuItems)>>
ConnectStack == <<Screen("idle", <<>>)>>

\* The menu screens of the application, by name.
MenuItemsOf ==
    [main |-> MainMenuItems, macros |-> MacrosItems, led |-> LEDSettingsItems,
     effects |-> EffectSelectItems, settings |-> SettingsItems,
     clock_settings |-> ClockSettingsItems, timeout |-> TimeoutSettingsItems]

\* Screens that pick a value with left/right and pop on press or back.
SelectorScreens == {"color", "brightness"}
\* Screens of the main menu whose classes are application-specific leaves.
LeafScreens == {"profiles", "info", "leaf"}

\* A submenu factory: the screen class is constructed.
MakeScreen(name) ==
    IF name \in DOMAIN MenuItemsOf THEN Screen(name, MenuItemsOf[name])
    ELSE Screen(name, <<>>)

IsMenu(scr) == scr.name \in DOMAIN MenuItemsOf \/ scr.name = "menu"

\* ---------------------------------------------------------- ScreenManager
\* The manager's state as a record m, with what the operation under way
\* has done so far: the screens on_input was delivered to, the callbacks
\* called, the value returned, whether an exception is propagating,
\* whether update found the overlay expired, the dirty flag render is to
\* test as update left it, the frames handed to the LCD, and the depth of
\* the stack and the overlay there was when the operation began.
Manager ==
    [stack |-> stack, overlay |-> overlay, overlay_expiry |-> overlay_expiry,
     now |-> uiNow, delivered |-> <<>>, calls |-> <<>>, handled |-> FALSE,
     raised |-> FALSE, expired |-> FALSE, dirty_after_update |-> FALSE,
     frames |-> 0, depth_before |-> Len(stack),
     overlay_before |-> overlay.name]

\* ScreenManager.current
Current(m) == m.stack[Len(m.stack)]

\* Screen.mark_dirty of the screen object that was at position pos when
\* the event was delivered; the object may have been popped since.
MarkDirtyAt(m, pos) ==
    IF pos <= Len(m.stack) THEN [m EXCEPT !.stack[pos].is_dirty = TRUE]
    ELSE m

MarkCurrentDirty(m) == MarkDirtyAt(m, Len(m.stack))

\* ScreenManager.push
Push(m, screen) == [m EXCEPT !.stack = Append(@, screen)]

\* ScreenManager.pop: the last screen is never popped.
PopAlways(m) ==
    MarkCurrentDirty([m EXCEPT !.stack = SubSeq(@, 1, Len(@) - 1)])
Pop(m) == IF Len(m.stack) > 1 THEN PopAlways(m) ELSE m

\* ScreenManager.show_overlay
ShowOverlay(m, screen, duration) ==
    [m EXCEPT !.overlay = screen, !.overlay_expiry = m.now + duration]

\* ScreenManager.dismiss_overlay: the screen under the overlay is redrawn.
DismissOverlay(m) ==
    IF m.overlay = NoScreen THEN m
    ELSE MarkCurrentDirty([m EXCEPT !.overlay = NoScreen])

Call(m, cb, item) ==
    [m EXCEPT !.calls = Append(@, [cb |-> cb, item |-> item])]

ShowToastOverlay(m, duration) == ShowOverlay(m, Screen("toast", <<>>), duration)

\* --------------------------------------------------------- overlay screens
\* ToastScreen.on_input: any input dismisses the toast.
ToastOnInputKeep(m, event) == [m EXCEPT !.handled = TRUE]
ToastOnInput(m, event) == [DismissOverlay(m) EXCEPT !.handled = TRUE]

\* A callback of a ConfirmDialog is called; it returns or raises.
ConfirmCallback(m, cb, raises) == [Call(m, cb, 0) EXCEPT !.raised = raises]

\* ConfirmDialog.on_input.  selected is 0 for No, 1 for Yes.  An exception
\* of a callback leaves on_input before dismiss_overlay is reached.
ConfirmOnInputBoth(m, event, raises) ==
    LET d == m.overlay
        toggle == [m EXCEPT !.overlay.selected = 1 - d.selected,
                            !.overlay.is_dirty = TRUE, !.handled = TRUE]
        both == ConfirmCallback(ConfirmCallback(m, "on_confirm", raises),
                                "on_cancel", raises)
    IN IF event \in {"STICK_LEFT", "STICK_RIGHT"} THEN toggle
       ELSE IF event \in {"STICK_PRESS", "BUTTON_BD"}
       THEN (IF both.raised THEN both
             ELSE [DismissOverlay(both) EXCEPT !.handled = TRUE])
       ELSE m
\* What a callback of a ConfirmDialog does when it is called: it returns,
\* it raises, or it shows a toast with its result and returns.
ConfirmCallbackDoes(m, cb, does) ==
    IF does = "shows_toast"
    THEN ShowToastOverlay(Call(m, cb, 0), DEFAULT_TOAST)
    ELSE ConfirmCallback(m, cb, does = "raises")

\* ConfirmDialog.on_input with callbacks that do as said.
ConfirmOnInputDoes(m, event, does) ==
    LET d == m.overlay
        toggle == [m EXCEPT !.overlay.selected = 1 - d.selected,
                            !.overlay.is_dirty = TRUE, !.handled = TRUE]
        commit == IF d.selected = 1
                  THEN ConfirmCallbackDoes(m, "on_confirm", does)
                  ELSE IF d.has_cancel
                  THEN ConfirmCallbackDoes(m, "on_cancel", does)
                  ELSE m
        cancel == IF d.has_cancel
                  THEN ConfirmCallbackDoes(m, "on_cancel", does)
                  ELSE m
    IN IF event \in {"STICK_LEFT", "STICK_RIGHT"} THEN toggle
       ELSE IF event = "STICK_PRESS"
       THEN (IF commit.raised THEN commit
             ELSE [DismissOverlay(commit) EXCEPT !.handled = TRUE])
       ELSE IF event = "BUTTON_BD"
       THEN (IF cancel.raised THEN cancel
             ELSE [DismissOverlay(cancel) EXCEPT !.handled = TRUE])
       ELSE m
ConfirmOnInput(m, event, raises) ==
    ConfirmOnInputDoes(m, event, IF raises THEN "raises" ELSE "returns")

\* -------------------------------------------------------------- MenuScreen
\* MenuScreen._move_selection, on the screen's own fields.
MoveSelectionClamp(scr, delta) ==
    IF scr.items = <<>> THEN scr
    ELSE LET raw == scr.selected_index + delta
             sel == IF raw < 0 THEN 0
                    ELSE IF raw >= Len(scr.items) THEN Len(scr.items) - 1
                    ELSE raw
             off == IF sel < scr.scroll_offset THEN sel
                    ELSE IF sel >= scr.scroll_offset + VISIBLE_ITEMS
                    THEN sel - VISIBLE_ITEMS + 1
                    ELSE scr.scroll_offset
         IN [scr EXCEPT !.selected_index = sel, !.scroll_offset = off,
                        !.is_dirty = TRUE]
MoveSelectionNoScroll(scr, delta) ==
    IF scr.items = <<>> THEN scr
    ELSE [scr EXCEPT
            !.selected_index = (scr.selected_index + delta) % Len(scr.items),
            !.is_dirty = TRUE]
MoveSelection(scr, delta) ==
    IF scr.items = <<>> THEN scr
    ELSE LET sel == (scr.selected_index + delta) % Len(scr.items)
             off == IF sel < scr.scroll_offset THEN sel
                    ELSE IF sel >= scr.scroll_offset + VISIBLE_ITEMS
                    THEN sel - VISIBLE_ITEMS + 1
                    ELSE scr.scroll_offset
         IN [scr EXCEPT !.selected_index = sel, !.scroll_offset = off,
                        !.is_dirty = TRUE]

\* The action callbacks of the menu items.  self is the screen object at
\* position pos; idx is the index of the item the callback belongs to.
RunAction(m, pos, idx, action) ==
    LET c == Call(m, "action", idx) IN
    CASE action \in {"turn_off", "cycle_sensitivity", "set_format",
                     "toggle_seconds", "toggle_date"} ->
            MarkDirtyAt(ShowToastOverlay(c, SHORT_TOAST), pos)
      [] action = "reset_defaults" ->
            MarkDirtyAt(ShowToastOverlay(c, LONG_TOAST), pos)
      [] action = "record_macro" -> ShowToastOverlay(c, LONG_TOAST)
      [] action \in {"set_effect", "stop_effect"} ->
            ShowToastOverlay(Pop(c), SHORT_TOAST)
      [] action = "set_timeout" -> Pop(ShowToastOverlay(c, SHORT_TOAST))
      [] OTHER -> c

\* MenuScreen._select_current
SelectCurrentActionFirst(m, pos) ==
    LET scr == m.stack[pos] IN
    IF scr.items = <<>> THEN m
    ELSE LET item == scr.items[scr.selected_index + 1] IN
         IF item.action # "None"
         THEN MarkDirtyAt(RunAction(m, pos, scr.selected_index, item.action),
                          pos)
         ELSE IF item.submenu # "None"
         THEN Push(Call(m, "submenu", scr.selected_index),
                   MakeScreen(item.submenu))
         ELSE m
SelectCurrent(m, pos) ==
    LET scr == m.stack[pos] IN
    IF scr.items = <<>> THEN m
    ELSE LET item == scr.items[scr.selected_index + 1] IN
         IF ~item.enabled THEN m
         ELSE IF item.submenu # "None"
         THEN Push(Call(m, "submenu", scr.selected_index),
                   MakeScreen(item.submenu))
         ELSE IF item.action # "None"
         THEN MarkDirtyAt(RunAction(m, pos, scr.selected_index, item.action),
                          pos)
         ELSE m

\* MenuScreen.on_input
MenuOnInput(m, pos, event) ==
    CASE event = "STICK_UP" ->
            [m EXCEPT !.stack[pos] = MoveSelection(@, -1), !.handled = TRUE]
      [] event = "STICK_DOWN" ->
            [m EXCEPT !.stack[pos] = MoveSelection(@, 1), !.handled = TRUE]
      [] event = "STICK_PRESS" ->
            [SelectCurrent(m, pos) EXCEPT !.handled = TRUE]
      [] event = "BUTTON_BD" -> [Pop(m) EXCEPT !.handled = TRUE]
      [] OTHER -> m

\* ------------------------------------------------------- selector screens
\* ColorPickerScreen.on_input: selected is the index of the preset.
ColorPickerOnInput(m, pos, event) ==
    CASE event = "STICK_LEFT" ->
            [m EXCEPT !.stack[pos].selected = (@ - 1) % NUM_PRESETS,
                      !.stack[pos].is_dirty = TRUE, !.handled = TRUE]
      [] event = "STICK_RIGHT" ->
            [m EXCEPT !.stack[pos].selected = (@ + 1) % NUM_PRESETS,
                      !.stack[pos].is_dirty = TRUE, !.handled = TRUE]
      [] event = "STICK_PRESS" ->
            [Pop(ShowToastOverlay(m, SHORT_TOAST)) EXCEPT !.handled = TRUE]
      [] event = "BUTTON_BD" -> [Pop(m) EXCEPT !.handled = TRUE]
      [] OTHER -> m

\* BrightnessScreen.on_input: selected is the brightness in steps of 10 %.
BrightnessOnInput(m, pos, event) ==
    CASE event = "STICK_LEFT" ->
            [m EXCEPT !.stack[pos].selected = IF @ > 0 THEN @ - 1 ELSE 0,
                      !.stack[pos].is_dirty = TRUE, !.handled = TRUE]
      [] event = "STICK_RIGHT" ->
            [m EXCEPT !.stack[pos].selected = IF @ < 10 THEN @ + 1 ELSE 10,
                      !.stack[pos].is_dirty = TRUE, !.handled = TRUE]
      [] event = "STICK_PRESS" ->
            [Pop(ShowToastOverlay(m, SHORT_TOAST)) EXCEPT !.handled = TRUE]
      [] event = "BUTTON_BD" -> [Pop(m) EXCEPT !.handled = TRUE]
      [] OTHER -> m

\* IdleScreen.on_input: nothing is handled.
IdleOnInput(m, event) == m

\* The leaf screens of the main menu: back pops, nothing else is handled.
LeafOnInput(m, event) ==
    IF event = "BUTTON_BD" THEN [Pop(m) EXCEPT !.handled = TRUE] ELSE m

\* ----------------------------------------------------------------- dispatch
\* on_input of the screen object at position pos of the stack, or of the
\* overlay when pos is 0.
Deliver(m, pos, event, raises) ==
    LET scr == IF pos = 0 THEN m.overlay ELSE m.stack[pos]
        d == [m EXCEPT !.delivered = Append(@, pos)]
    IN CASE scr.name = "toast" -> ToastOnInput(d, event)
         [] scr.name = "confirm" -> ConfirmOnInput(d, event, raises)
         [] scr.name = "idle" -> IdleOnInput(d, event)
         [] scr.name = "color" -> ColorPickerOnInput(d, pos, event)
         [] scr.name = "brightness" -> BrightnessOnInput(d, pos, event)
         [] scr.name \in LeafScreens -> LeafOnInput(d, event)
         [] OTHER -> MenuOnInput(d, pos, event)

\* ScreenManager.on_input: the overlay if there is one, else the top of
\* the stack; never a second screen.
ManagerOnInput(m, event, raises) ==
    IF m.overlay # NoScreen THEN Deliver(m, 0, event, raises)
    ELSE Deliver(m, Len(m.stack), event, raises)

\* NavigationController.show_toast
NavShowToast(m, duration) == ShowToastOverlay(m, duration)

\* G13Daemon.show_toast
DaemonShowToastDefault(m, duration) == NavShowToast(m, DEFAULT_TOAST)
DaemonShowToast(m, duration) == NavShowToast(m, duration)

\* G13Daemon._on_mkey_pressed and set_mode: the mode is shown in a toast.
OnMkeyPressed(m) == DaemonShowToast(Call(m, "profile_callback", 0), MODE_TOAST)

\* NavigationController.on_input: the event goes to the screen manager; an
\* unhandled stick press on the idle screen opens the main menu, an
\* unhandled M key calls its profile callback.
NavOnInput(m, event, raises) ==
    LET r == ManagerOnInput(m, event, raises) IN
    IF r.handled \/ r.raised THEN r
    ELSE IF event = "STICK_PRESS" /\ Current(r).name = "idle"
    THEN Push(r, MakeScreen("main"))
    ELSE IF event = "BUTTON_M1" THEN OnMkeyPressed(r)
    ELSE r

\* G13Daemon._on_input_event
OnInputEventTwice(m, event, raises) ==
    NavOnInput(NavOnInput(m, event, raises), event, raises)
OnInputEvent(m, event, raises) == NavOnInput(m, event, raises)

\* ------------------------------------------------------------------ render
\* IdleScreen.update: the screen is dirty when the second (or the minute)
\* shown has moved since the last update.
IdleUpdate(m, moved) ==
    IF Current(m).name = "idle" /\ moved THEN MarkCurrentDirty(m) ELSE m

\* The dirty flag render() is to test: the overlay's if there is one, else
\* the active screen's.
RelevantDirty(m) ==
    IF m.overlay # NoScreen THEN m.overlay.is_dirty ELSE Current(m).is_dirty

\* ScreenManager.update: the active screen is updated, and an overlay
\* whose time is up is dismissed.
Update(m, moved) ==
    LET u == IdleUpdate(m, moved)
        e == u.overlay # NoScreen /\ u.now >= u.overlay_expiry
        r == IF e THEN DismissOverlay(u) ELSE u
    IN [r EXCEPT !.expired = e, !.dirty_after_update = RelevantDirty(r)]

\* The screen render() draws: the overlay if there is one, else the
\* active screen.
DrawAndWrite(m) ==
    IF m.overlay # NoScreen
    THEN [m EXCEPT !.overlay.is_dirty = FALSE, !.frames = @ + 1]
    ELSE [m EXCEPT !.stack[Len(m.stack)].is_dirty = FALSE, !.frames = @ + 1]

\* ScreenManager.render: nothing is drawn unless that screen is dirty.
Render(m) ==
    IF RelevantDirty(m) THEN DrawAndWrite(m) ELSE m

\* ScreenManager.force_render
ForceRender(m) == DrawAndWrite(m)

\* One iteration of G13Daemon._render_loop: update(dt), then render().
RenderLoopBodyForce(m, moved) == ForceRender(Update(m, moved))
RenderLoopBodyNoUpdate(m, moved) == Render(m)
RenderLoopBody(m, moved) == Render(Update(m, moved))

\* ================================================================ canvas
\* lcd/canvas.py: the 160x43 monochrome canvas.  A canvas is a record: its
\* width, its height, its _buffer (a sequence of bytes, byte i of the
\* bytearray at index i + 1) and whether an operation on it has raised.
WIDTH == 160
HEIGHT == 43
FRAMEBUFFER_SIZE == 960

\* The side of the small canvas that is blitted onto the display's, and the
\* lengths of a short and of a long input of from_bytes.
SMALL_SIDE == 10
SHORT_DATA == 100
LONG_DATA == 2000

\* bool(b & (1 << k)), b | (1 << k) and b & ~(1 << k) on a byte.
TestBit(b, k) == (b \div (2 ^ k)) % 2 = 1
OrBit(b, k) == IF TestBit(b, k) THEN b ELSE b + 2 ^ k
ClearBit(b, k) == IF TestBit(b, k) THEN b - 2 ^ k ELSE b

\* bytearray(n) and bytearray([v] * n)
ByteArray(n, v) == [i \in 1..n |-> v]

\* Canvas.__init__
NewCanvas(width, height) ==
    [width |-> width, height |-> height,
     buffer |-> ByteArray(FRAMEBUFFER_SIZE, 0), raised |-> FALSE]

\* Canvas.clear and Canvas.fill
Clear(c) == [c EXCEPT !.buffer = ByteArray(FRAMEBUFFER_SIZE, 0)]
Fill(c) == [c EXCEPT !.buffer = ByteArray(FRAMEBUFFER_SIZE, 255)]

\* 0 <= x < self.width and 0 <= y < self.height
InCanvas(c, x, y) == 0 <= x /\ x < c.width /\ 0 <= y /\ y < c.height

\* byte_idx = x + (y // 8) * self.WIDTH
ByteIdx(x, y) == x + (y \div 8) * WIDTH

\* Mutants of set_pixel: one that ignores the value, one that writes the
\* byte of the row block above, one that wraps a coordinate past the right
\* edge into the next row.
SetPixelAlwaysOn(c, x, y, on) ==
    IF ~InCanvas(c, x, y) THEN c
    ELSE [c EXCEPT !.buffer[ByteIdx(x, y) + 1] = OrBit(@, y % 8)]

SetPixelWrapping(c, x, y, on) ==
    IF ~(0 <= x /\ 0 <= y /\ y < c.height /\ ByteIdx(x, y) < Len(c.buffer))
    THEN c
    ELSE [c EXCEPT !.buffer[ByteIdx(x, y) + 1] =
                       IF on THEN OrBit(@, y % 8) ELSE ClearBit(@, y % 8)]

\* Canvas.set_pixel.  An index past the end of the bytearray raises
\* IndexError and leaves the buffer as it was.
SetPixel(c, x, y, on) ==
    IF ~InCanvas(c, x, y) THEN c
    ELSE IF ByteIdx(x, y) >= Len(c.buffer) THEN [c EXCEPT !.raised = TRUE]
    ELSE [c EXCEPT !.buffer[ByteIdx(x, y) + 1] =
                       IF on THEN OrBit(@, y % 8) ELSE ClearBit(@, y % 8)]

\* Canvas.get_pixel: the value it returns
GetPixel(c, x, y) ==
    IF ~InCanvas(c, x, y) THEN FALSE
    ELSE TestBit(c.buffer[ByteIdx(x, y) + 1], y % 8)

\* Canvas.draw_hline and Canvas.draw_vline: for i in range(n): set_pixel.
\* Every loop over set_pixel ends when a call has raised.
RECURSIVE DrawHLineFrom(_, _, _, _, _, _)
DrawHLineFrom(c, x, y, width, on, i) ==
    IF i >= width \/ c.raised THEN c
    ELSE DrawHLineFrom(SetPixel(c, x + i, y, on), x, y, width, on, i + 1)

DrawHLine(c, x, y, width, on) == DrawHLineFrom(c, x, y, width, on, 0)

RECURSIVE DrawVLineFrom(_, _, _, _, _, _)
DrawVLineFrom(c, x, y, height, on, i) ==
    IF i >= height \/ c.raised THEN c
    ELSE DrawVLineFrom(SetPixel(c, x, y + i, on), x, y, height, on, i + 1)

DrawVLine(c, x, y, height, on) == DrawVLineFrom(c, x, y, height, on, 0)

\* Canvas.draw_rect: the filled rectangle sets its rows one after the
\* other, the outline draws top, bottom, left, right.
RECURSIVE FillRowsFrom(_, _, _, _, _, _, _)
FillRowsFrom(c, x, y, width, height, on, py) ==
    IF py >= height \/ c.raised THEN c
    ELSE FillRowsFrom(DrawHLine(c, x, y + py, width, on),
                      x, y, width, height, on, py + 1)

DrawRect(c, x, y, width, height, filled, on) ==
    IF filled THEN FillRowsFrom(c, x, y, width, height, on, 0)
    ELSE DrawVLine(
             DrawVLine(
                 DrawHLine(DrawHLine(c, x, y, width, on),
                           x, y + height - 1, width, on),
                 x, y, height, on),
             x + width - 1, y, height, on)

\* Mutant of blit: it copies the off pixels of the source too.
RECURSIVE BlitOverwriteRow(_, _, _, _, _, _)
BlitOverwriteRow(c, other, x, y, py, px) ==
    IF px >= other.width \/ c.raised THEN c
    ELSE BlitOverwriteRow(
             SetPixel(c, x + px, y + py, GetPixel(other, px, py)),
             other, x, y, py, px + 1)

RECURSIVE BlitOverwriteFrom(_, _, _, _, _)
BlitOverwriteFrom(c, other, x, y, py) ==
    IF py >= other.height \/ c.raised THEN c
    ELSE BlitOverwriteFrom(BlitOverwriteRow(c, other, x, y, py, 0),
                           other, x, y, py + 1)

BlitOverwrite(c, other, x, y) == BlitOverwriteFrom(c, other, x, y, 0)

\* Canvas.blit: for py, for px: if other.get_pixel(px, py): set_pixel(True)
RECURSIVE BlitRow(_, _, _, _, _, _)
BlitRow(c, other, x, y, py, px) ==
    IF px >= other.width \/ c.raised THEN c
    ELSE BlitRow(IF GetPixel(other, px, py)
                     THEN SetPixel(c, x + px, y + py, TRUE)
                     ELSE c,
                 other, x, y, py, px + 1)

RECURSIVE BlitFrom(_, _, _, _, _)
BlitFrom(c, other, x, y, py) ==
    IF py >= other.height \/ c.raised THEN c
    ELSE BlitFrom(BlitRow(c, other, x, y, py, 0), other, x, y, py + 1)

Blit(c, other, x, y) == BlitFrom(c, other, x, y, 0)

\* Canvas.to_bytes: bytes(self._buffer)
ToBytes(c) == c.buffer

\* Mutants of from_bytes: one that keeps only the bytes of the 43 rows
\* counted as 160 * 43 bits, one that keeps a longer input whole, one that
\* pads a shorter input with 0xFF.
FromBytesVisible(c, data) ==
    LET size == (WIDTH * HEIGHT) \div 8
        kept == IF Len(data) > size THEN SubSeq(data, 1, size) ELSE data
    IN [c EXCEPT !.buffer =
            kept \o ByteArray(FRAMEBUFFER_SIZE - Len(kept), 0)]

FromBytesNoTruncate(c, data) ==
    [c EXCEPT !.buffer =
         IF Len(data) < FRAMEBUFFER_SIZE
             THEN data \o ByteArray(FRAMEBUFFER_SIZE - Len(data), 0)
             ELSE data]

FromBytesPadOnes(c, data) ==
    LET kept == IF Len(data) > FRAMEBUFFER_SIZE
                    THEN SubSeq(data, 1, FRAMEBUFFER_SIZE) ELSE data
    IN [c EXCEPT !.buffer =
            IF Len(kept) < FRAMEBUFFER_SIZE
                THEN kept \o ByteArray(FRAMEBUFFER_SIZE - Len(kept), 255)
                ELSE kept]

\* Canvas.from_bytes: data[:960], then extend with zero bytes up to 960
FromBytes(c, data) ==
    LET kept == IF Len(data) > FRAMEBUFFER_SIZE
                    THEN SubSeq(data, 1, FRAMEBUFFER_SIZE) ELSE data
    IN [c EXCEPT !.buffer =
            IF Len(kept) < FRAMEBUFFER_SIZE
                THEN kept \o ByteArray(FRAMEBUFFER_SIZE - Len(kept), 0)
                ELSE kept]

\* No canvas: the value of a canvas variable before Canvas() is called.
NoCanvas == [width |-> 0, height |-> 0, buffer |-> <<>>, raised |-> FALSE]

\* The record of a call on the canvas, before any call.
NoCall == [op |-> "none", x |-> 0, y |-> 0, on |-> FALSE, got |-> FALSE,
           other |-> NoCanvas, data |-> <<>>, copy |-> NoCanvas]

\* ----------------------------------------------------- inputs of the model
\* Stick positions <<x, y>>: the centre, the last position of the dead zone
\* on both axes, one position beyond the threshold on each axis, and one
\* with both axes beyond it.
StickPoints ==
    { <<128, 128>>, <<78, 178>>, <<128, 77>>, <<179, 128>>, <<77, 77>> }
\* Bytes 6 and 7 of the reports.  <<2, 132>> has no navigation button down,
\* only bits the navigation layer does not read (0x02 in byte 6, 0x04 and
\* the status bit 0x80 in byte 7); <<1, 136>> is BD and the stick button;
\* <<224, 131>> is M1, M2, M3, MR and LEFT.
ButtonBytes ==
    { <<2, 132>>, <<1, 136>>, <<224, 131>> }
\* How long read() waits before the device delivers a report.
ReadDelays == {50}
\* How long read() waits before it raises.
ErrorDelays == {40}
\* Lengths of the reports the decoder rejects.
ShortLens == {1, 7}

\* -------------------------------------------------------------------- Init
Init ==
    /\ now = 0
    /\ repeat_direction = "None"
    /\ repeat_start_time = 0
    /\ last_repeat_time = 0
    /\ stick_pressed = FALSE
    /\ button_state = <<>>
    /\ pollThread = "alive"
    /\ step = "init"
    /\ emitted = <<>>
    /\ caught = "none"
    /\ lastValid = <<>>
    /\ failed = FALSE
    /\ quiet = FALSE
    /\ repeatTimes = <<>>
    /\ mainPc = "start_input"
    /\ renderPc = "not_started"
    /\ pollPc = "not_started"
    /\ smOp = [t \in Threads |-> "none"]
    /\ dirty = TRUE
    /\ frames = 0
    /\ ticks = 0
    /\ inputs = 0
    /\ key_count = 0
    /\ stack = ConnectStack
    /\ overlay = NoScreen
    /\ overlay_expiry = 0
    /\ uiNow = 0
    /\ navOp = "init"
    /\ navEvent = "None"
    /\ navOut = [delivered |-> <<>>, calls |-> <<>>, handled |-> FALSE,
                 raised |-> FALSE, expired |-> FALSE,
                 dirty_after_update |-> FALSE, frames |-> 0,
                 depth_before |-> 1, overlay_before |-> "None"]
    /\ run = [start |-> 0, downs |-> 0]
    /\ shown = [at |-> 0, duration |-> 0, quiet |-> FALSE]
    /\ last_state = {}
    /\ broadcast = [pressed |-> {}, released |-> {}]
    /\ diffPrev = {}
    /\ canvas = NoCanvas
    /\ canvasPrev = NoCanvas
    /\ canvasCall = NoCall
    /\ canvasOps = 0
    /\ running = FALSE
    /\ runPc = "start"
    /\ stopPc = [t \in {"main", "other"} |-> "idle"]
    /\ cleaned = {}
    /\ signalled = FALSE
    /\ loops = 0
    /\ files = <<>>
    /\ current_profile = [name |-> "", description |-> "", is_none |-> TRUE]
    /\ current_name = ""
    /\ profCall = [op |-> "init", name |-> "", ret |-> "", raised |-> FALSE]
    /\ profBefore = [files |-> <<>>, op |-> "init", name |-> "",
                     raised |-> FALSE, current_name |-> "",
                     current_profile |-> [name |-> "", description |-> "",
                                          is_none |-> TRUE]]
    /\ pending = <<>>
    /\ stream = <<>>
    /\ seen = <<>>
    /\ events = <<>>
    /\ renderRunning = TRUE
    /\ renderLoopPc = "while"
    /\ renderTicks = 0
    /\ renderLast = [ended |-> "none", stack |-> <<>>, overlay |-> NoScreen]
    /\ handler_running = FALSE
    /\ handler_thread = 0
    /\ loopPc = [t \in 1..MaxThreads |-> "unborn"]
    /\ stopCallPc = "idle"
    /\ joinTimedOut = FALSE
    /\ iterations = [t \in 1..MaxThreads |-> 0]
    /\ led_level = 100
    /\ screen_brightness = 100
    /\ brightOpen = FALSE
    /\ brightAtOpen = 100
    /\ brightLast = "None"
    /\ ledBefore = 100

\* Assign the handler's fields from the record an operation returns.
Store(h) ==
    /\ repeat_direction' = h.repeat_direction
    /\ repeat_start_time' = h.repeat_start_time
    /\ last_repeat_time' = h.last_repeat_time
    /\ stick_pressed' = h.stick_pressed
    /\ button_state' = h.button_state
    /\ emitted' = h.out

\* One iteration of _poll_loop in which read() returns a report.
PollData(data, d, cbRaises, kind) ==
    \E h \in {ProcessReport(HandlerRec, data, now + d, cbRaises)} :
    LET t == now + d
        rejected == ~DecodeReport(data).ok
        newHold == /\ ~rejected
                   /\ h.repeat_direction # "None"
                   /\ h.repeat_direction # repeat_direction
    IN /\ pollThread = "alive"
       /\ t <= MaxTime
       /\ cbRaises => h.out # <<>>
       /\ now' = t
       /\ Store(h)
       /\ step' = kind
       /\ caught' = IF rejected THEN "decode"
                    ELSE IF h.cb_failed THEN "callback" ELSE "none"
       /\ lastValid' = IF rejected THEN lastValid ELSE data
       /\ failed' = (failed \/ caught # "none")
       /\ quiet' = newHold
       /\ repeatTimes' = <<>>
       /\ UNCHANGED <<pollThread, daemonVars, uiVars, decoderVars, canvasVars, stopVars, profileVars, readerVars, lateVars>>

PollReport ==
    \E p \in StickPoints, b \in ButtonBytes, d \in ReadDelays,
       cbRaises \in BOOLEAN :
        PollData(MkReport(p[1], p[2], b[1], b[2]), d, cbRaises, "report")

PollShortReport ==
    \E n \in ShortLens, d \in ReadDelays :
        PollData(SubSeq(MkReport(0, 0, 255, 255), 1, n), d, FALSE, "short")

\* One iteration in which read() times out: the pending repeat is checked.
PollTimeout ==
    \E cbRaises \in BOOLEAN :
        \E h \in {CheckStickRepeat(HandlerRec, now + READ_TIMEOUT_MS,
                                    cbRaises)} :
        LET t == now + READ_TIMEOUT_MS
        IN /\ pollThread = "alive"
           /\ t <= MaxTime
           /\ cbRaises => h.out # <<>>
           /\ now' = t
           /\ Store(h)
           /\ step' = "timeout"
           /\ caught' = IF h.cb_failed THEN "callback" ELSE "none"
           /\ failed' = (failed \/ caught # "none")
           /\ repeatTimes' = IF quiet /\ h.out # <<>>
                             THEN Append(repeatTimes, t) ELSE repeatTimes
           /\ UNCHANGED <<pollThread, lastValid, quiet, daemonVars, uiVars, decoderVars, canvasVars, stopVars, profileVars, readerVars, lateVars>>

\* One iteration in which read() raises: logged, then time.sleep(0.01).
PollReadRaises ==
    \E d \in ErrorDelays :
        LET t == now + d + ERROR_SLEEP_MS IN
        /\ pollThread = "alive"
        /\ t <= MaxTime
        /\ now' = t
        /\ pollThread' = PollLoopOnException
        /\ step' = "readerr"
        /\ emitted' = <<>>
        /\ caught' = "read"
        /\ failed' = (failed \/ caught # "none")
        /\ quiet' = FALSE
        /\ repeatTimes' = <<>>
        /\ UNCHANGED <<handlerVars, lastValid, daemonVars, uiVars, decoderVars, canvasVars, stopVars, profileVars, readerVars, lateVars>>

Next ==
    \/ PollReport
    \/ PollShortReport
    \/ PollTimeout
    \/ PollReadRaises

Spec == Init /\ [][Next]_vars

\* ------------------------------------------------------------- SpecDir
\* The direction computation over the whole axis range: one report with
\* any stick position, given to a freshly constructed handler.
DirReport ==
    /\ step = "init"
    /\ \E x \in 0..255, y \in 0..255 :
           PollData(MkReport(x, y, 0, 128), 0, FALSE, "report")

SpecDir == Init /\ [][DirReport]_vars

\* ---------------------------------------------------------- SpecDaemon
\* The three threads of a running daemon and the screen manager they share.
\* A ScreenManager operation is two steps, its call and its return; the
\* thread is inside the operation between them.

\* ScreenManager: entering an operation.  No coordination primitive guards
\* the screen manager: a thread enters whatever the other threads do.
SmEnter(t, op) == smOp' = [smOp EXCEPT ![t] = op]
SmLeave(t) == smOp' = [smOp EXCEPT ![t] = "none"]

\* G13Daemon.run: self._input_handler.start() starts the poll thread.
RunStartInputHandler ==
    /\ mainPc = "start_input"
    /\ mainPc' = "start_render"
    /\ pollPc' = "read"
    /\ UNCHANGED <<renderPc, smOp, dirty, frames, ticks, inputs, key_count,
                   pollVars, uiVars, decoderVars, canvasVars, stopVars, profileVars, readerVars, lateVars>>

\* G13Daemon.run: the render thread is created and started.
RunStartRenderThread ==
    /\ mainPc = "start_render"
    /\ mainPc' = "force_render"
    /\ renderPc' = "top"
    /\ UNCHANGED <<pollPc, smOp, dirty, frames, ticks, inputs, key_count,
                   pollVars, uiVars, decoderVars, canvasVars, stopVars, profileVars, readerVars, lateVars>>

\* G13Daemon.run: self._screen_manager.force_render(), called with both
\* other threads already running.
RunForceRenderCall ==
    /\ mainPc = "force_render"
    /\ mainPc' = "in_force_render"
    /\ SmEnter("main", "force_render")
    /\ UNCHANGED <<renderPc, pollPc, dirty, frames, ticks, inputs, key_count,
                   pollVars, uiVars, decoderVars, canvasVars, stopVars, profileVars, readerVars, lateVars>>

\* force_render draws the active screen whatever its dirty flag is.
RunForceRenderReturn ==
    /\ mainPc = "in_force_render"
    /\ mainPc' = "main_loop"
    /\ SmLeave("main")
    /\ dirty' = FALSE
    /\ frames' = frames + 1
    /\ UNCHANGED <<renderPc, pollPc, ticks, inputs, key_count, pollVars, uiVars, decoderVars, canvasVars, stopVars, profileVars, readerVars, lateVars>>

\* G13Daemon.run, the main loop: a report is read and given to
\* _handle_raw_report, which counts it.
MainLoopRead ==
    /\ mainPc = "main_loop"
    /\ key_count < MaxRounds
    /\ key_count' = key_count + 1
    /\ UNCHANGED <<mainPc, renderPc, pollPc, smOp, dirty, frames, ticks,
                   inputs, pollVars, uiVars, decoderVars, canvasVars, stopVars, profileVars, readerVars, lateVars>>

\* _render_loop: self._screen_manager.update(dt)
RenderUpdateCall ==
    /\ renderPc = "top"
    /\ ticks < MaxRounds
    /\ ticks' = ticks + 1
    /\ renderPc' = "in_update"
    /\ SmEnter("render", "update")
    /\ UNCHANGED <<mainPc, pollPc, dirty, frames, inputs, key_count, pollVars, uiVars, decoderVars, canvasVars, stopVars, profileVars, readerVars, lateVars>>

RenderUpdateReturn ==
    /\ renderPc = "in_update"
    /\ renderPc' = "call_render"
    /\ SmLeave("render")
    /\ UNCHANGED <<mainPc, pollPc, dirty, frames, ticks, inputs, key_count,
                   pollVars, uiVars, decoderVars, canvasVars, stopVars, profileVars, readerVars, lateVars>>

\* _render_loop: self._screen_manager.render()
RenderRenderCall ==
    /\ renderPc = "call_render"
    /\ renderPc' = "in_render"
    /\ SmEnter("render", "render")
    /\ UNCHANGED <<mainPc, pollPc, dirty, frames, ticks, inputs, key_count,
                   pollVars, uiVars, decoderVars, canvasVars, stopVars, profileVars, readerVars, lateVars>>

\* render draws and writes a frame only when the dirty flag is set.
RenderRenderReturn ==
    /\ renderPc = "in_render"
    /\ renderPc' = "sleep"
    /\ SmLeave("render")
    /\ dirty' = FALSE
    /\ frames' = IF dirty THEN frames + 1 ELSE frames
    /\ UNCHANGED <<mainPc, pollPc, ticks, inputs, key_count, pollVars, uiVars, decoderVars, canvasVars, stopVars, profileVars, readerVars, lateVars>>

\* _render_loop: time.sleep(sleep_time), then the next iteration.
RenderSleep ==
    /\ renderPc = "sleep"
    /\ renderPc' = "top"
    /\ UNCHANGED <<mainPc, pollPc, smOp, dirty, frames, ticks, inputs,
                   key_count, pollVars, uiVars, decoderVars, canvasVars, stopVars, profileVars, readerVars, lateVars>>

\* The poll thread: _emit calls the callback, G13Daemon._on_input_event,
\* which calls on_input of the navigation controller.
PollOnInputCall ==
    /\ pollPc = "read"
    /\ inputs < MaxRounds
    /\ inputs' = inputs + 1
    /\ pollPc' = "in_on_input"
    /\ SmEnter("poll", "on_input")
    /\ UNCHANGED <<mainPc, renderPc, dirty, frames, ticks, key_count, pollVars, uiVars, decoderVars, canvasVars, stopVars, profileVars, readerVars, lateVars>>

\* on_input changed the state of a screen, which marks it dirty.
PollOnInputReturn ==
    /\ pollPc = "in_on_input"
    /\ pollPc' = "read"
    /\ SmLeave("poll")
    /\ dirty' = TRUE
    /\ UNCHANGED <<mainPc, renderPc, frames, ticks, inputs, key_count,
                   pollVars, uiVars, decoderVars, canvasVars, stopVars, profileVars, readerVars, lateVars>>

NextDaemon ==
    \/ RunStartInputHandler
    \/ RunStartRenderThread
    \/ RunForceRenderCall
    \/ RunForceRenderReturn
    \/ MainLoopRead
    \/ RenderUpdateCall
    \/ RenderUpdateReturn
    \/ RenderRenderCall
    \/ RenderRenderReturn
    \/ RenderSleep
    \/ PollOnInputCall
    \/ PollOnInputReturn

SpecDaemon == Init /\ [][NextDaemon]_vars

\* ------------------------------------------------------ inputs of the model
\* A plain item of a generic menu, and the items that differ from it:
\* disabled, with a submenu and an action, with a submenu only, with
\* neither.
PlainItem == MenuItem("item", "act", "None", TRUE)
ItemKinds ==
    { MenuItem("item", "act", "None", FALSE),
      MenuItem("item", "act", "leaf", TRUE),
      MenuItem("item", "None", "leaf", TRUE),
      MenuItem("item", "None", "None", TRUE) }
\* A menu of n items, plain but for the item at position p.
GenericItems(n, p, k) == [i \in 1..n |-> IF i = p THEN k ELSE PlainItem]

\* The durations G13Daemon.show_toast is called with in the timed model.
ToastDurations == {2 * RENDER_INTERVAL, 2 * RENDER_INTERVAL + TimeStep}
\* The events of the timed model.
ToastEvents == {"STICK_PRESS", "BUTTON_BD"}

\* The result of an operation becomes the state.
StoreUi(m, op, event) ==
    /\ stack' = m.stack
    /\ overlay' = m.overlay
    /\ overlay_expiry' = m.overlay_expiry
    /\ navOp' = op
    /\ navEvent' = event
    /\ navOut' = [delivered |-> m.delivered, calls |-> m.calls,
                  handled |-> m.handled, raised |-> m.raised,
                  expired |-> m.expired,
                  dirty_after_update |-> m.dirty_after_update,
                  frames |-> m.frames, depth_before |-> m.depth_before,
                  overlay_before |-> m.overlay_before]

\* ----------------------------------------------------------------- SpecNav
\* The screens of the application under navigation events, direct calls of
\* push and pop, toasts and confirm dialogs.  No time passes.

\* An event reaches G13Daemon._on_input_event.  raises: the callback the
\* event calls, if it calls one of a ConfirmDialog, raises.
NavInput ==
    \E event \in NavEvents, raises \in BOOLEAN :
        \E m \in {OnInputEvent(Manager, event, raises)} :
            /\ raises => m.raised
            /\ StoreUi(m, "on_input", event)
            /\ UNCHANGED <<uiNow, run, shown, pollVars, daemonVars, decoderVars, canvasVars, stopVars, profileVars, readerVars, lateVars>>

\* ScreenManager.push, called with a new leaf screen.
NavPush ==
    /\ Len(stack) < MaxDepth
    /\ StoreUi(Push(Manager, MakeScreen("leaf")), "push", "None")
    /\ UNCHANGED <<uiNow, run, shown, pollVars, daemonVars, decoderVars, canvasVars, stopVars, profileVars, readerVars, lateVars>>

\* ScreenManager.pop, called directly.
NavPop ==
    /\ StoreUi(Pop(Manager), "pop", "None")
    /\ UNCHANGED <<uiNow, run, shown, pollVars, daemonVars, decoderVars, canvasVars, stopVars, profileVars, readerVars, lateVars>>

\* G13Daemon.show_toast, called with the default duration.
NavToast ==
    /\ StoreUi(DaemonShowToast(Manager, DEFAULT_TOAST), "show_toast", "None")
    /\ UNCHANGED <<uiNow, run, shown, pollVars, daemonVars, decoderVars, canvasVars, stopVars, profileVars, readerVars, lateVars>>

\* A ConfirmDialog is constructed, with or without on_cancel, and shown.
NavConfirm ==
    \E hasCancel \in BOOLEAN :
        /\ StoreUi(ShowOverlay(Manager, NewConfirmDialog(hasCancel),
                               DEFAULT_TOAST), "show_confirm", "None")
        /\ UNCHANGED <<uiNow, run, shown, pollVars, daemonVars, decoderVars, canvasVars, stopVars, profileVars, readerVars, lateVars>>

NextNav ==
    \/ NavInput
    \/ NavPush
    \/ NavPop
    \/ NavToast
    \/ NavConfirm

SpecNav == Init /\ [][NextNav]_vars

\* ---------------------------------------------------------------- SpecMenu
\* A generic MenuScreen of any length up to MaxItems above the idle
\* screen, under stick and back events.

\* A MenuScreen is constructed with its items and pushed.
MenuOpen ==
    \E n \in 0..MaxItems, p \in 1..MaxItems, k \in ItemKinds \cup {PlainItem} :
        /\ Len(stack) = 1
        /\ p <= n \/ (n = 0 /\ p = 1 /\ k = PlainItem)
        /\ StoreUi(Push(Manager, Screen("menu", GenericItems(n, p, k))),
                   "push", "None")
        /\ run' = [start |-> 0, downs |-> 0]
        /\ UNCHANGED <<uiNow, shown, pollVars, daemonVars, decoderVars, canvasVars, stopVars, profileVars, readerVars, lateVars>>

\* The STICK_DOWN events in a row that the menu at position pos has had,
\* counted up to the number of its items, and the index they began at.
RunAfter(event, pos) ==
    LET scr == stack[pos]
        n == Len(scr.items)
    IN IF event = "STICK_DOWN" /\ Len(stack) = pos /\ n > 0
       THEN (IF run.downs < n THEN [run EXCEPT !.downs = @ + 1]
             ELSE [start |-> scr.selected_index, downs |-> 1])
       ELSE [start |-> stack'[pos].selected_index, downs |-> 0]

MenuInput ==
    \E event \in {"STICK_UP", "STICK_DOWN", "STICK_PRESS", "BUTTON_BD"} :
        \E m \in {OnInputEvent(Manager, event, FALSE)} :
            /\ Len(stack) > 1
            /\ StoreUi(m, "on_input", event)
            /\ run' = IF Len(m.stack) > 1 THEN RunAfter(event, 2)
                      ELSE [start |-> 0, downs |-> 0]
            /\ UNCHANGED <<uiNow, shown, pollVars, daemonVars, decoderVars, canvasVars, stopVars, profileVars, readerVars, lateVars>>

NextMenu ==
    \/ MenuOpen
    \/ MenuInput

SpecMenu == Init /\ [][NextMenu]_vars

\* --------------------------------------------------------------- SpecToast
\* The render loop, toasts and inputs in time.  The clock moves in steps
\* of TimeStep up to MaxUiTime.

\* G13Daemon.show_toast(message, duration)
ToastShow ==
    \E d \in ToastDurations :
        /\ StoreUi(DaemonShowToast(Manager, d), "show_toast", "None")
        /\ shown' = [at |-> uiNow, duration |-> d, quiet |-> TRUE]
        /\ UNCHANGED <<uiNow, run, pollVars, daemonVars, decoderVars, canvasVars, stopVars, profileVars, readerVars, lateVars>>

\* An event reaches G13Daemon._on_input_event.
ToastInput ==
    \E event \in ToastEvents :
        \E m \in {OnInputEvent(Manager, event, FALSE)} :
            /\ StoreUi(m, "on_input", event)
            /\ shown' = IF 0 \in Range(m.delivered)
                        THEN [shown EXCEPT !.quiet = FALSE] ELSE shown
            /\ UNCHANGED <<uiNow, run, pollVars, daemonVars, decoderVars, canvasVars, stopVars, profileVars, readerVars, lateVars>>

\* One iteration of _render_loop at the present time.
ToastTick ==
    /\ \E moved \in BOOLEAN :
           StoreUi(RenderLoopBody(Manager, moved), "tick", "None")
    /\ UNCHANGED <<uiNow, run, shown, pollVars, daemonVars, decoderVars, canvasVars, stopVars, profileVars, readerVars, lateVars>>

\* G13Daemon.run: force_render(), once, with the render and poll threads
\* already running; the main thread then stays in its loop.
ToastForceRender ==
    /\ mainPc # "main_loop"
    /\ mainPc' = "main_loop"
    /\ StoreUi(ForceRender(Manager), "force_render", "None")
    /\ UNCHANGED <<uiNow, run, shown, pollVars, renderPc, pollPc, smOp, dirty,
                   frames, ticks, inputs, key_count, decoderVars, canvasVars, stopVars, profileVars, readerVars, lateVars>>

\* Time passes.
ToastAdvance ==
    /\ uiNow + TimeStep <= MaxUiTime
    /\ uiNow' = uiNow + TimeStep
    /\ navOp' = "advance"
    /\ UNCHANGED <<stack, overlay, overlay_expiry, navEvent, navOut, run,
                   shown, pollVars, daemonVars, decoderVars, canvasVars, stopVars, profileVars, readerVars, lateVars>>

NextToast ==
    \/ ToastShow
    \/ ToastInput
    \/ ToastTick
    \/ ToastForceRender
    \/ ToastAdvance

SpecToast == Init /\ [][NextToast]_vars

\* ---------------------------------------------------------------- SpecDiff
\* G13Daemon._handle_raw_report: each report is decoded and the buttons
\* that changed since the report before are broadcast.

\* EventDecoder.decode_report: the buttons of a report, as the set of the
\* names whose bit is set.
PressedButtons(data) ==
    {b.name : b \in {c \in Range(BUTTON_MAP) :
                        BitSet(Byte(data, c.byte_idx), c.bit_pos)}}

\* EventDecoder.get_button_changes: the pure difference of two button
\* states, the buttons pressed and the buttons released.
GetButtonChanges(previous, current) ==
    [pressed |-> current \ previous, released |-> previous \ current]

\* _handle_raw_report: broadcast_button_event(button, pressed=True) for the
\* pressed buttons, then (button, pressed=False) for the released ones.
BroadcastChangesSwapped(pressed, released) ==
    [pressed |-> released, released |-> pressed]
BroadcastChanges(pressed, released) ==
    [pressed |-> pressed, released |-> released]

\* The button bytes of the reports, and the length of a report too short
\* to decode.
DiffBytes6 == {0, 1, 32, 33, 64, 96}
DiffBytes7 == {128, 130}
DiffShortLens == {7}

\* _handle_raw_report(data).  The mapper counts the report; with the
\* server enabled the report is decoded, and a report the decoder rejects
\* is logged and broadcasts nothing.
HandleRawReport(data, server) ==
    LET state == DecodeReport(data)
        current == PressedButtons(data)
        changes == GetButtonChanges(last_state, current)
    IN /\ key_count < MaxRounds
       /\ key_count' = key_count + 1
       /\ IF server /\ state.ok
          THEN /\ broadcast' = BroadcastChanges(changes.pressed,
                                                changes.released)
               /\ diffPrev' = last_state
               /\ last_state' = current
          ELSE UNCHANGED decoderVars
       /\ UNCHANGED <<mainPc, renderPc, pollPc, smOp, dirty, frames, ticks,
                      inputs, pollVars, uiVars, canvasVars, stopVars, profileVars, readerVars, lateVars>>

DiffReport ==
    \E b6 \in DiffBytes6, b7 \in DiffBytes7, server \in BOOLEAN :
        HandleRawReport(MkReport(STICK_CENTER, STICK_CENTER, b6, b7), server)

DiffShortReport ==
    \E n \in DiffShortLens :
        HandleRawReport(SubSeq(MkReport(0, 0, 255, 255), 1, n), TRUE)

NextDiff ==
    \/ DiffReport
    \/ DiffShortReport

SpecDiff == Init /\ [][NextDiff]_vars

\* ============================================================ SpecCanvas
\* ------------------------------------------------- the canvas in operation
\* A run of the canvas is up to MaxCanvasOps whole-canvas drawing operations
\* on the display's canvas, then one operation under study.
CanvasXs == {-1, 0, 10, 80, WIDTH - 1, WIDTH}
CanvasYs == {-1, 0, 5, 7, 8, 21, HEIGHT - 3, HEIGHT - 1, HEIGHT, HEIGHT + 4}

\* A source canvas with the given pixels on.
RECURSIVE WithPixels(_, _)
WithPixels(c, pixels) ==
    IF pixels = <<>> \/ c.raised THEN c
    ELSE WithPixels(SetPixel(c, pixels[1][1], pixels[1][2], TRUE),
                    Tail(pixels))

BlitSources ==
    { WithPixels(NewCanvas(SMALL_SIDE, SMALL_SIDE), <<<<0, 0>>, <<5, 5>>>>),
      Fill(NewCanvas(SMALL_SIDE, SMALL_SIDE)) }

BlitPositions == {<<20, 20>>, <<-3, -3>>, <<WIDTH - 5, HEIGHT - 5>>,
                  <<WIDTH, 0>>}

\* Inputs of from_bytes: empty, short, exact (with bits in the rows below
\* the display's last), and long.
CanvasData ==
    { <<>>,
      ByteArray(SHORT_DATA, 255),
      [i \in 1..FRAMEBUFFER_SIZE |-> IF i % 7 = 0 THEN 129 ELSE i % 8],
      [i \in 1..LONG_DATA |-> IF i % 3 = 0 THEN 255 ELSE 16] }

\* One operation: the canvas before it, the call, the canvas after it.
StoreCanvas(c, call) ==
    /\ canvasPrev' = canvas
    /\ canvas' = c
    /\ canvasCall' = call
    /\ UNCHANGED <<pollVars, daemonVars, uiVars, decoderVars, stopVars,
                   profileVars, readerVars, lateVars>>

Drawing(c, call) ==
    /\ canvasCall.op \in {"init", "draw"}
    /\ canvasOps < MaxCanvasOps
    /\ canvasOps' = canvasOps + 1
    /\ StoreCanvas(c, [call EXCEPT !.op = "draw"])

Studied(c, call) ==
    /\ canvasCall.op \in {"init", "draw"}
    /\ UNCHANGED canvasOps
    /\ StoreCanvas(c, call)

\* canvas = Canvas()
CanvasNew ==
    /\ canvasCall.op = "none"
    /\ UNCHANGED canvasOps
    /\ StoreCanvas(NewCanvas(WIDTH, HEIGHT), [NoCall EXCEPT !.op = "init"])

CanvasClear == Drawing(Clear(canvas), NoCall)

CanvasFill == Drawing(Fill(canvas), NoCall)

CanvasDrawRect ==
    \E filled \in BOOLEAN :
        Drawing(DrawRect(canvas, WIDTH - 4, 2, 6, 4, filled, ~filled),
                [NoCall EXCEPT !.on = ~filled])

CanvasLoad ==
    \E data \in {d \in CanvasData : Len(d) = FRAMEBUFFER_SIZE} :
        Drawing(FromBytes(canvas, data), [NoCall EXCEPT !.data = data])

CanvasSetPixel ==
    \E x \in CanvasXs, y \in CanvasYs, on \in BOOLEAN :
        \E c \in {SetPixel(canvas, x, y, on)} :
            Studied(c, [NoCall EXCEPT !.op = "set_pixel", !.x = x, !.y = y,
                                      !.on = on, !.got = GetPixel(c, x, y)])

CanvasBlit ==
    \E other \in BlitSources, p \in BlitPositions :
        Studied(Blit(canvas, other, p[1], p[2]),
                [NoCall EXCEPT !.op = "blit", !.x = p[1], !.y = p[2],
                               !.other = other])

CanvasFromBytes ==
    \E data \in CanvasData :
        Studied(FromBytes(canvas, data),
                [NoCall EXCEPT !.op = "from_bytes", !.data = data])

\* to_bytes(), then from_bytes() of the result on a fresh canvas
CanvasRoundTrip ==
    Studied(canvas,
            [NoCall EXCEPT !.op = "round_trip", !.data = ToBytes(canvas),
                           !.copy = FromBytes(NewCanvas(WIDTH, HEIGHT),
                                              ToBytes(canvas))])

NextCanvas ==
    \/ CanvasNew
    \/ CanvasClear
    \/ CanvasFill
    \/ CanvasDrawRect
    \/ CanvasLoad
    \/ CanvasSetPixel
    \/ CanvasBlit
    \/ CanvasFromBytes
    \/ CanvasRoundTrip

SpecCanvas == Init /\ [][NextCanvas]_vars

\* ============================================================== SpecStop
\* G13Daemon.run from its main loop on, G13Daemon.stop as the main thread
\* calls it in run's finally clause and as another thread calls it, and
\* G13Daemon._handle_signal.  Each thread is at one place of stop():
\*   "idle"     not in stop()
\*   "check"    before 'if not self._running: return'
\*   "clear"    before 'self._running = False'
\*   a cleanup step's name (CleanupSteps): before that step
\*   "done"     stop() has returned
StopThreads == {"main", "other"}

\* _stop_components and _close_hardware, in the order of their calls, for a
\* connected daemon without the server.
CleanupSteps == <<"input_handler.stop", "led_controller.stop_effect",
                  "render_thread.join", "mapper.close", "lcd.clear",
                  "device.close">>

\* stop() without its early return: it cleans up whatever _running is.
StopAfterCheckAlways(isRunning) == "clear"

\* stop(): 'if not self._running: return'
StopAfterCheck(isRunning) == IF isRunning THEN "clear" ELSE "done"

\* run(): _running = True, the signal handlers, the threads, the first frame
RunStart ==
    /\ runPc = "start"
    /\ runPc' = "loop"
    /\ running' = TRUE
    /\ UNCHANGED <<stopPc, cleaned, signalled, loops>>
    /\ UNCHANGED <<pollVars, daemonVars, uiVars, decoderVars, canvasVars,
                   profileVars, readerVars, lateVars>>

\* run(): one iteration of 'while self._running', a read of the device
RunLoopRead ==
    /\ runPc = "loop"
    /\ running
    /\ loops < MaxRounds
    /\ loops' = loops + 1
    /\ UNCHANGED <<runPc, running, stopPc, cleaned, signalled>>
    /\ UNCHANGED <<pollVars, daemonVars, uiVars, decoderVars, canvasVars,
                   profileVars, readerVars, lateVars>>

\* run(): the loop ends and the finally clause calls self.stop()
RunLoopExit ==
    /\ runPc = "loop"
    /\ ~running
    /\ runPc' = "finally"
    /\ stopPc' = [stopPc EXCEPT !["main"] = "check"]
    /\ UNCHANGED <<running, cleaned, signalled, loops>>
    /\ UNCHANGED <<pollVars, daemonVars, uiVars, decoderVars, canvasVars,
                   profileVars, readerVars, lateVars>>

\* run(): self.stop() has returned, run() returns
RunReturn ==
    /\ runPc = "finally"
    /\ stopPc["main"] = "done"
    /\ runPc' = "returned"
    /\ UNCHANGED <<running, stopPc, cleaned, signalled, loops>>
    /\ UNCHANGED <<pollVars, daemonVars, uiVars, decoderVars, canvasVars,
                   profileVars, readerVars, lateVars>>

\* _handle_signal: SIGINT or SIGTERM is delivered to the main thread while
\* run() is in its loop.
HandleSignal ==
    /\ runPc = "loop"
    /\ ~signalled
    /\ signalled' = TRUE
    /\ running' = FALSE
    /\ UNCHANGED <<runPc, stopPc, cleaned, loops>>
    /\ UNCHANGED <<pollVars, daemonVars, uiVars, decoderVars, canvasVars,
                   profileVars, readerVars, lateVars>>

\* Another thread calls stop() while run() is under way.
StopCall ==
    /\ runPc \in {"loop", "finally"}
    /\ stopPc["other"] = "idle"
    /\ stopPc' = [stopPc EXCEPT !["other"] = "check"]
    /\ UNCHANGED <<runPc, running, cleaned, signalled, loops>>
    /\ UNCHANGED <<pollVars, daemonVars, uiVars, decoderVars, canvasVars,
                   profileVars, readerVars, lateVars>>

\* The place in stop() after cleanup step pc.
AfterCleanup(pc) ==
    LET i == CHOOSE k \in 1..Len(CleanupSteps) : CleanupSteps[k] = pc
    IN IF i = Len(CleanupSteps) THEN "done" ELSE CleanupSteps[i + 1]

\* One step of stop() in thread t.
StopStep(t) ==
    /\ stopPc[t] \notin {"idle", "done"}
    /\ IF stopPc[t] = "check"
       THEN /\ stopPc' = [stopPc EXCEPT ![t] = StopAfterCheck(running)]
            /\ UNCHANGED <<running, cleaned>>
       ELSE IF stopPc[t] = "clear"
       THEN /\ running' = FALSE
            /\ stopPc' = [stopPc EXCEPT ![t] = CleanupSteps[1]]
            /\ UNCHANGED cleaned
       ELSE /\ cleaned' = cleaned \cup {stopPc[t]}
            /\ stopPc' = [stopPc EXCEPT ![t] = AfterCleanup(stopPc[t])]
            /\ UNCHANGED running
    /\ UNCHANGED <<runPc, signalled, loops>>
    /\ UNCHANGED <<pollVars, daemonVars, uiVars, decoderVars, canvasVars,
                   profileVars, readerVars, lateVars>>

NextStop ==
    \/ RunStart
    \/ RunLoopRead
    \/ RunLoopExit
    \/ RunReturn
    \/ HandleSignal
    \/ StopCall
    \/ \E t \in StopThreads : StopStep(t)

SpecStop == Init /\ [][NextStop]_vars

\* =========================================================== SpecProfile
\* gui/models/profile_manager.py.  The profiles directory is the function
\* files: the stem of each *.json file -> the ProfileData stored in it.  A
\* ProfileData is a record of its name field and its description (standing
\* for the rest of its content); None is NoProfile.  The empty string
\* stands for a None argument (both are false in 'name or ...').
ProfileData(name, description) ==
    [name |-> name, description |-> description, is_none |-> FALSE]

NoProfile == [name |-> "", description |-> "", is_none |-> TRUE]

\* The ProfileManager: its directory and its fields, with what the last
\* call returned and whether it raised.
ProfileManager ==
    [files |-> files, current_profile |-> current_profile,
     current_name |-> current_name, ret |-> "", raised |-> FALSE]

\* ProfileManager.profile_exists
ProfileExists(pm, name) == name \in DOMAIN pm.files

\* open(path, "w"); json.dump(asdict(profile), f)
WriteFile(fs, name, profile) ==
    [n \in DOMAIN fs \cup {name} |-> IF n = name THEN profile ELSE fs[n]]

\* path.unlink()
Unlink(fs, name) == [n \in DOMAIN fs \ {name} |-> fs[n]]

\* ProfileManager.load_profile
LoadProfile(pm, name) ==
    IF ~ProfileExists(pm, name) THEN [pm EXCEPT !.raised = TRUE]
    ELSE [pm EXCEPT !.current_profile = pm.files[name],
                    !.current_name = name]

\* ProfileManager.save_profile
SaveProfile(pm, profile, name) ==
    LET save_name == IF name # "" THEN name ELSE profile.name
    IN [pm EXCEPT !.files = WriteFile(pm.files, save_name, profile),
                  !.current_profile = profile]

\* delete_profile as it would be with the file name that load_profile
\* tracks: it clears the current profile when current_name is the name.
DeleteProfileByFileName(pm, name) ==
    IF ~ProfileExists(pm, name) THEN [pm EXCEPT !.raised = TRUE]
    ELSE [pm EXCEPT !.files = Unlink(pm.files, name),
                    !.current_profile =
                        IF ~pm.current_profile.is_none
                               /\ pm.current_name = name
                            THEN NoProfile ELSE @]

\* ProfileManager.delete_profile
DeleteProfile(pm, name) ==
    IF ~ProfileExists(pm, name) THEN [pm EXCEPT !.raised = TRUE]
    ELSE [pm EXCEPT !.files = Unlink(pm.files, name),
                    !.current_profile =
                        IF ~pm.current_profile.is_none
                               /\ pm.current_profile.name = name
                            THEN NoProfile ELSE @]

\* Mutant of the search for a free name: it tries name_1 and stops.
UniqueNameOnce(pm, original_name, profile_name, counter) ==
    IF ProfileExists(pm, profile_name)
        THEN original_name \o "_" \o ToString(counter)
        ELSE profile_name

\* import_profile: 'while self.profile_exists(profile_name): ...'
RECURSIVE UniqueName(_, _, _, _)
UniqueName(pm, original_name, profile_name, counter) ==
    IF ProfileExists(pm, profile_name)
        THEN UniqueName(pm, original_name,
                        original_name \o "_" \o ToString(counter),
                        counter + 1)
        ELSE profile_name

\* The name import_profile first tries.
ImportTarget(data, stem, new_name) ==
    IF new_name # "" THEN new_name
    ELSE IF data.name # "" THEN data.name ELSE stem

\* ProfileManager.import_profile of an existing file with valid JSON
ImportProfile(pm, data, stem, new_name) ==
    LET profile == IF new_name # "" THEN [data EXCEPT !.name = new_name]
                   ELSE data
        target == ImportTarget(data, stem, new_name)
        profile_name == UniqueName(pm, target, target, 1)
    IN [SaveProfile(pm, profile, profile_name) EXCEPT !.ret = profile_name]

\* ---------------------------------------------------- inputs and actions
SaveNames == {"", "p_1"}
InternalNames == {"p", "q"}
LoadNames == {"p", "p_1", "p_2"}
ImportData == {ProfileData("p", "new"), ProfileData("", "new")}
ImportStems == {"ext"}
ImportNames == {"", "p_1"}

StoreProfiles(pm, op, name) ==
    /\ files' = pm.files
    /\ current_profile' = pm.current_profile
    /\ current_name' = pm.current_name
    /\ profCall' = [op |-> op, name |-> name, ret |-> pm.ret,
                    raised |-> pm.raised]
    /\ profBefore' = [files |-> files, op |-> profCall.op,
                      name |-> profCall.name, raised |-> profCall.raised,
                      current_name |-> current_name,
                      current_profile |-> current_profile]
    /\ UNCHANGED <<pollVars, daemonVars, uiVars, decoderVars, canvasVars,
                   stopVars, readerVars, lateVars>>

ProfSave ==
    \E name \in SaveNames, internal \in InternalNames :
        \E pm \in {SaveProfile(ProfileManager, ProfileData(internal, "old"),
                               name)} :
            /\ Cardinality(DOMAIN pm.files) <= MaxProfiles
            /\ StoreProfiles(pm, "save", name)

ProfLoad ==
    \E name \in LoadNames :
        StoreProfiles(LoadProfile(ProfileManager, name), "load", name)

ProfDelete ==
    \E name \in LoadNames :
        StoreProfiles(DeleteProfile(ProfileManager, name), "delete", name)

ProfImport ==
    \E data \in ImportData, stem \in ImportStems, new_name \in ImportNames :
        /\ Cardinality(DOMAIN files) <= MaxProfiles
        /\ StoreProfiles(ImportProfile(ProfileManager, data, stem, new_name),
                         "import", ImportTarget(data, stem, new_name))

NextProfile ==
    \/ ProfSave
    \/ ProfLoad
    \/ ProfDelete
    \/ ProfImport

SpecProfile == Init /\ [][NextProfile]_vars

\* =========================================================== SpecReaders
\* The two threads that read the device: G13Daemon.run's main loop and
\* InputHandler._poll_loop, both calling read(timeout_ms=100) on the one
\* device object connect() hands to the handler.  The device is a queue of
\* reports: a read returns the oldest report and removes it.
ReaderReports ==
    { MkReport(STICK_CENTER, STICK_CENTER, 0, 128),
      MkReport(STICK_CENTER, STICK_CENTER, 1, 128),
      MkReport(STICK_CENTER, STICK_CENTER, 32, 128) }

\* The device delivers a report.
DeviceReport ==
    \E data \in ReaderReports :
        /\ Len(stream) <= MaxRounds
        /\ pending' = Append(pending, data)
        /\ stream' = Append(stream, data)
        /\ UNCHANGED <<seen, events, pollVars, daemonVars, uiVars,
                       decoderVars, canvasVars, stopVars, profileVars, lateVars>>

\* run(): data = self._device.read(timeout_ms=100); if data:
\* self._handle_raw_report(data), which counts it in _key_count.
MainLoopReads ==
    /\ pending # <<>>
    /\ pending' = Tail(pending)
    /\ key_count' = key_count + 1
    /\ UNCHANGED <<stream, seen, events, pollVars, mainPc, renderPc, pollPc,
                   smOp, dirty, frames, ticks, inputs, uiVars, decoderVars,
                   canvasVars, stopVars, profileVars, lateVars>>

\* _poll_loop: data = self.device.read(timeout_ms=100); if data:
\* self._process_report(data)
PollLoopReads ==
    /\ pending # <<>>
    /\ \E h \in {ProcessReport(HandlerRec, Head(pending), now, FALSE)} :
           /\ Store(h)
           /\ events' = events \o h.out
    /\ pending' = Tail(pending)
    /\ seen' = Append(seen, Head(pending))
    /\ UNCHANGED <<stream, now, pollThread, step, caught, lastValid, failed,
                   quiet, repeatTimes, daemonVars, uiVars, decoderVars,
                   canvasVars, stopVars, profileVars, lateVars>>

NextReaders ==
    \/ DeviceReport
    \/ MainLoopReads
    \/ PollLoopReads

SpecReaders == Init /\ [][NextReaders]_vars

\* ============================================================ SpecRender
\* G13Daemon._render_loop as the render thread runs it, with update() and
\* render() returning or raising, next to a thread that shows toasts and
\* ends the daemon, while time passes.

\* What the screen manager is left as when update(dt) or render() raises:
\* update() raises in the active screen's update, before the manager has
\* changed anything; render() raises after update() has returned, before
\* the screen that was to be drawn is marked clean.
TickRaises(m, moved, where) ==
    IF where = "update" THEN [m EXCEPT !.raised = TRUE]
    ELSE [Update(m, moved) EXCEPT !.raised = TRUE]

\* Where the render thread goes next: from the loop test, into the try
\* block or out of the loop; from the try block, to the sleep for the rest
\* of the frame, or to the except clause and its sleep of RENDER_INTERVAL;
\* from either sleep, back to the loop test.
RenderLoopNextEscapes(pc, isRunning, raised) ==
    CASE pc = "while" -> IF isRunning THEN "try" ELSE "return"
      [] pc = "try" -> IF raised THEN "return" ELSE "sleep"
      [] pc \in {"sleep", "except_sleep"} -> "while"
      [] OTHER -> pc

RenderLoopNext(pc, isRunning, raised) ==
    CASE pc = "while" -> IF isRunning THEN "try" ELSE "return"
      [] pc = "try" -> IF raised THEN "except_sleep" ELSE "sleep"
      [] pc \in {"sleep", "except_sleep"} -> "while"
      [] OTHER -> pc

TickOutcomes == {"ok", "update", "render"}

\* while self._running:
LoopTest ==
    /\ renderLoopPc = "while"
    /\ renderRunning => renderTicks < MaxRenderTicks
    /\ renderLoopPc' = RenderLoopNext(renderLoopPc, renderRunning, FALSE)
    /\ renderTicks' = IF renderRunning THEN renderTicks + 1 ELSE renderTicks
    /\ UNCHANGED <<renderRunning, renderLast>>
    /\ UNCHANGED <<pollVars, daemonVars, uiVars, decoderVars, canvasVars,
                   stopVars, profileVars, readerVars, lifeVars, brightVars>>

\* The try block up to its sleep: update(dt) and render(), either of which
\* may raise.
LoopTry ==
    /\ renderLoopPc = "try"
    /\ \E moved \in BOOLEAN, outcome \in TickOutcomes :
         \E m \in {IF outcome = "ok" THEN RenderLoopBody(Manager, moved)
                   ELSE TickRaises(Manager, moved, outcome)} :
            /\ StoreUi(m, "tick", "None")
            /\ renderLast' = [ended |-> outcome, stack |-> m.stack,
                              overlay |-> m.overlay]
            /\ renderLoopPc' = RenderLoopNext(renderLoopPc, renderRunning,
                                              outcome # "ok")
    /\ UNCHANGED <<renderRunning, renderTicks>>
    /\ UNCHANGED <<uiNow, run, shown, pollVars, daemonVars, decoderVars,
                   canvasVars, stopVars, profileVars, readerVars, lifeVars, brightVars>>

\* time.sleep(sleep_time) of the try block, time.sleep(RENDER_INTERVAL) of
\* the except clause
LoopSleep ==
    /\ renderLoopPc \in {"sleep", "except_sleep"}
    /\ renderLoopPc' = RenderLoopNext(renderLoopPc, renderRunning, FALSE)
    /\ UNCHANGED <<renderRunning, renderTicks, renderLast>>
    /\ UNCHANGED <<pollVars, daemonVars, uiVars, decoderVars, canvasVars,
                   stopVars, profileVars, readerVars, lifeVars, brightVars>>

\* G13Daemon.stop: self._running = False
LoopStopFlag ==
    /\ renderRunning
    /\ renderRunning' = FALSE
    /\ UNCHANGED <<renderLoopPc, renderTicks, renderLast>>
    /\ UNCHANGED <<pollVars, daemonVars, uiVars, decoderVars, canvasVars,
                   stopVars, profileVars, readerVars, lifeVars, brightVars>>

NextRender ==
    \/ LoopTest
    \/ LoopTry
    \/ LoopSleep
    \/ LoopStopFlag
    \/ ToastShow
    \/ ToastAdvance

SpecRender == Init /\ [][NextRender]_vars

\* ============================================================== SpecLife
\* InputHandler.start and stop as one caller uses them, and the poll
\* threads start() creates.  Thread objects are numbered in the order of
\* their creation; a thread is "unborn" before start() creates it, in
\* "while" at the loop test, in "body" inside an iteration, and "exited"
\* once _poll_loop has returned.

PollThreads == 1..MaxThreads

\* The threads that are executing _poll_loop.
Executing == {t \in PollThreads : loopPc[t] \in {"while", "body"}}

\* _poll_loop: the loop test reads _running once per iteration; the body
\* (the read, the callbacks, the except clause) leads back to the test.
PollLoopNextDeaf(pc, isRunning) ==
    CASE pc = "while" -> "body"
      [] pc = "body" -> "while"
      [] OTHER -> pc

PollLoopNext(pc, isRunning) ==
    CASE pc = "while" -> IF isRunning THEN "body" ELSE "exited"
      [] pc = "body" -> "while"
      [] OTHER -> pc

\* InputHandler.start
HandlerStart ==
    /\ stopCallPc = "idle"
    /\ IF handler_running
       THEN UNCHANGED <<handler_running, handler_thread, loopPc>>
       ELSE \E t \in PollThreads :
               /\ loopPc[t] = "unborn"
               /\ \A u \in PollThreads : u < t => loopPc[u] # "unborn"
               /\ handler_running' = TRUE
               /\ handler_thread' = t
               /\ loopPc' = [loopPc EXCEPT ![t] = "while"]
    /\ UNCHANGED <<stopCallPc, joinTimedOut, iterations>>
    /\ UNCHANGED <<pollVars, daemonVars, uiVars, decoderVars, canvasVars,
                   stopVars, profileVars, readerVars, renderLoopVars, brightVars>>

\* InputHandler.stop: self._running = False; if self._thread: (join)
HandlerStop ==
    /\ stopCallPc = "idle"
    /\ handler_running' = FALSE
    /\ stopCallPc' = IF handler_thread # 0 THEN "join" ELSE "idle"
    /\ UNCHANGED <<handler_thread, loopPc, joinTimedOut, iterations>>
    /\ UNCHANGED <<pollVars, daemonVars, uiVars, decoderVars, canvasVars,
                   stopVars, profileVars, readerVars, renderLoopVars, brightVars>>

\* InputHandler.stop: self._thread.join(timeout=1.0) returns, the thread
\* having exited or the second having passed in an iteration that takes
\* longer; self._thread = None.
HandlerStopJoin ==
    /\ stopCallPc = "join"
    /\ \E timeout \in BOOLEAN :
          /\ timeout => loopPc[handler_thread] = "body"
          /\ ~timeout => loopPc[handler_thread] = "exited"
          /\ joinTimedOut' = (joinTimedOut \/ timeout)
    /\ handler_thread' = 0
    /\ stopCallPc' = "idle"
    /\ UNCHANGED <<handler_running, loopPc, iterations>>
    /\ UNCHANGED <<pollVars, daemonVars, uiVars, decoderVars, canvasVars,
                   stopVars, profileVars, readerVars, renderLoopVars, brightVars>>

\* One step of a poll thread: the loop test, or a whole iteration's body.
PollThreadStep(t) ==
    /\ loopPc[t] \in {"while", "body"}
    /\ loopPc' = [loopPc EXCEPT ![t] = PollLoopNext(@, handler_running)]
    /\ iterations' = IF loopPc[t] = "body" /\ iterations[t] < MaxRounds
                     THEN [iterations EXCEPT ![t] = @ + 1] ELSE iterations
    /\ UNCHANGED <<handler_running, handler_thread, stopCallPc, joinTimedOut>>
    /\ UNCHANGED <<pollVars, daemonVars, uiVars, decoderVars, canvasVars,
                   stopVars, profileVars, readerVars, renderLoopVars, brightVars>>

NextLife ==
    \/ HandlerStart
    \/ HandlerStop
    \/ HandlerStopJoin
    \/ \E t \in PollThreads : PollThreadStep(t)

SpecLife == Init /\ [][NextLife]_vars

\* The poll threads are scheduled, and device.read and the callback return.
SpecLifeFair == SpecLife /\ \A t \in PollThreads : WF_vars(PollThreadStep(t))

\* =========================================================== SpecConfirm
\* The screens under navigation events as in SpecNav, with confirm dialogs
\* whose callbacks show a toast.

\* The dialog is the overlay, and the event that reaches it calls a
\* callback that shows a toast.
ConfirmInputShows ==
    /\ overlay.name = "confirm"
    /\ \E event \in {"STICK_PRESS", "BUTTON_BD"} :
         \E m \in {ConfirmOnInputDoes([Manager EXCEPT !.delivered = <<0>>],
                                      event, "shows_toast")} :
            /\ m.calls # <<>>
            /\ StoreUi(m, "confirm_shows", event)
    /\ UNCHANGED <<uiNow, run, shown, pollVars, daemonVars, decoderVars,
                   canvasVars, stopVars, profileVars, readerVars, lateVars>>

NextConfirm ==
    \/ NavInput
    \/ NavPush
    \/ NavPop
    \/ NavToast
    \/ NavConfirm
    \/ ConfirmInputShows

SpecConfirm == Init /\ [][NextConfirm]_vars

\* ======================================================== SpecBrightness
\* BrightnessScreen with the LED controller it adjusts.  The screen is a
\* record: its brightness, the LED's brightness, whether it has popped
\* itself, whether it has shown its toast and whether it handled the event.

BRIGHTNESS_STEP == 10
BRIGHTNESS_MAX == 100

\* The brightness the LED has when a profile or a client has set it.
BrightnessLevels == {0, 50, 80, BRIGHTNESS_MAX}

\* LEDController.brightness and set_brightness, which read and write the
\* level the backlight holds.
LedBrightness(led) == led
LedSetBrightness(led, level) == level

\* BrightnessScreen.__init__
NewBrightnessScreen(led) ==
    [brightness |-> LedBrightness(led), led |-> led, popped |-> FALSE,
     toast |-> FALSE, handled |-> FALSE]

\* BrightnessScreen._preview_brightness and _apply_brightness
PreviewBrightness(s) ==
    [s EXCEPT !.led = LedSetBrightness(s.led, s.brightness)]
ApplyBrightness(s) ==
    [s EXCEPT !.led = LedSetBrightness(s.led, s.brightness), !.toast = TRUE]

\* BrightnessScreen.on_input
BrightnessScreenOnInput(s, event) ==
    CASE event = "STICK_LEFT" ->
            [PreviewBrightness(
                [s EXCEPT !.brightness =
                    IF @ - BRIGHTNESS_STEP > 0 THEN @ - BRIGHTNESS_STEP ELSE 0])
             EXCEPT !.handled = TRUE]
      [] event = "STICK_RIGHT" ->
            [PreviewBrightness(
                [s EXCEPT !.brightness =
                    IF @ + BRIGHTNESS_STEP < BRIGHTNESS_MAX
                    THEN @ + BRIGHTNESS_STEP ELSE BRIGHTNESS_MAX])
             EXCEPT !.handled = TRUE]
      [] event = "STICK_PRESS" ->
            [ApplyBrightness(s) EXCEPT !.popped = TRUE, !.handled = TRUE]
      [] event = "BUTTON_BD" ->
            [s EXCEPT !.led = LedSetBrightness(s.led, LedBrightness(s.led)),
                      !.popped = TRUE, !.handled = TRUE]
      [] OTHER -> s

\* The brightness is set while the screen is closed.
BrightnessSetElsewhere ==
    /\ ~brightOpen
    /\ \E level \in BrightnessLevels : led_level' = LedSetBrightness(led_level, level)
    /\ brightLast' = "None"
    /\ UNCHANGED <<screen_brightness, brightOpen, brightAtOpen, ledBefore>>
    /\ UNCHANGED <<pollVars, daemonVars, uiVars, decoderVars, canvasVars,
                   stopVars, profileVars, readerVars, renderLoopVars, lifeVars>>

\* The LED settings menu constructs the screen and pushes it.
BrightnessOpen ==
    /\ ~brightOpen
    /\ brightOpen' = TRUE
    /\ screen_brightness' = NewBrightnessScreen(led_level).brightness
    /\ brightAtOpen' = led_level
    /\ brightLast' = "None"
    /\ UNCHANGED <<led_level, ledBefore>>
    /\ UNCHANGED <<pollVars, daemonVars, uiVars, decoderVars, canvasVars,
                   stopVars, profileVars, readerVars, renderLoopVars, lifeVars>>

\* An event reaches the screen.
BrightnessInput ==
    /\ brightOpen
    /\ \E event \in NavEvents :
         \E s \in {BrightnessScreenOnInput(
                      [NewBrightnessScreen(led_level)
                       EXCEPT !.brightness = screen_brightness], event)} :
            /\ s.handled
            /\ led_level' = s.led
            /\ screen_brightness' = s.brightness
            /\ brightOpen' = ~s.popped
            /\ brightLast' = event
            /\ ledBefore' = led_level
    /\ UNCHANGED brightAtOpen
    /\ UNCHANGED <<pollVars, daemonVars, uiVars, decoderVars, canvasVars,
                   stopVars, profileVars, readerVars, renderLoopVars, lifeVars>>

NextBrightness ==
    \/ BrightnessSetElsewhere
    \/ BrightnessOpen
    \/ BrightnessInput

SpecBrightness == Init /\ [][NextBrightness]_vars

\* ============================================================ SpecCustom
\* Canvases of custom dimensions: Canvas(width, height), then set_pixel and
\* get_pixel on coordinates that are in range for that canvas.

BUFFER_ROWS == 48

\* The dimensions of the canvases: those of the tests, the display's, and
\* wider and higher ones.
TEST_WIDTH == 100
TEST_HEIGHT == 30
CustomWidths == {SMALL_SIDE, TEST_WIDTH, WIDTH, WIDTH + 40}
CustomHeights == {SMALL_SIDE, TEST_HEIGHT, HEIGHT, BUFFER_ROWS, BUFFER_ROWS + 2}

\* get_pixel raises IndexError: the coordinates pass the range check and
\* the byte index is outside the buffer.
GetPixelRaises(c, x, y) ==
    InCanvas(c, x, y) /\ ByteIdx(x, y) >= Len(c.buffer)

\* canvas = Canvas(width=w, height=h)
CustomNew ==
    /\ canvasCall.op = "none"
    /\ \E w \in CustomWidths, h \in CustomHeights :
          StoreCanvas(NewCanvas(w, h), [NoCall EXCEPT !.op = "init"])
    /\ UNCHANGED canvasOps

\* The corners and the middle of the canvas.
CustomXs(c) == {0, c.width \div 2, c.width - 1}
CustomYs(c) == {0, c.height \div 2, c.height - 1}

CustomSetPixel ==
    /\ canvasCall.op \in {"init", "set_pixel"}
    /\ ~canvas.raised
    /\ canvasOps < MaxCanvasOps
    /\ canvasOps' = canvasOps + 1
    /\ \E x \in CustomXs(canvas), y \in CustomYs(canvas), on \in BOOLEAN :
          StoreCanvas(SetPixel(canvas, x, y, on),
                      [NoCall EXCEPT !.op = "set_pixel", !.x = x, !.y = y,
                                     !.on = on])

CustomGetPixel ==
    /\ canvasCall.op \in {"init", "set_pixel"}
    /\ ~canvas.raised
    /\ UNCHANGED canvasOps
    /\ \E x \in CustomXs(canvas), y \in CustomYs(canvas) :
          IF GetPixelRaises(canvas, x, y)
          THEN StoreCanvas([canvas EXCEPT !.raised = TRUE],
                           [NoCall EXCEPT !.op = "get_pixel", !.x = x,
                                          !.y = y])
          ELSE StoreCanvas(canvas,
                           [NoCall EXCEPT !.op = "get_pixel", !.x = x,
                                          !.y = y,
                                          !.got = GetPixel(canvas, x, y)])

NextCustom ==
    \/ CustomNew
    \/ CustomSetPixel
    \/ CustomGetPixel

SpecCustom == Init /\ [][NextCustom]_vars

\* ============================================================== SpecLine
\* Canvas.draw_line on an empty and on a filled display canvas.

\* if x1 == x2 and y1 == y2: break
LineDoneOnX(x1, y1, x2, y2) == x1 = x2
LineDone(x1, y1, x2, y2) == x1 = x2 /\ y1 = y2

\* dx, dy, sx and sy, which draw_line computes once from its arguments.
LineSlope(x1, y1, x2, y2) ==
    [dx |-> IF x2 - x1 < 0 THEN x1 - x2 ELSE x2 - x1,
     dy |-> IF y2 - y1 < 0 THEN y1 - y2 ELSE y2 - y1,
     sx |-> IF x1 < x2 THEN 1 ELSE -1,
     sy |-> IF y1 < y2 THEN 1 ELSE -1]

\* The iterations the loop of draw_line is followed for: one for every unit
\* of dx and of dy, and one more.
LineSteps(k) == k.dx + k.dy + 1

\* One iteration of the loop of draw_line.  The loop is a record: the
\* canvas, the point (x1, y1), the error term, and whether it is still in
\* the loop, has come to its break, or has raised.
LineStep(l, x2, y2, k, on) ==
    LET s == SetPixel(l.canvas, l.x1, l.y1, on)
        e2 == 2 * l.err
        stepx == e2 > -k.dy
        stepy == e2 < k.dx
    IN IF s.raised THEN [l EXCEPT !.canvas = s, !.status = "raised"]
       ELSE IF LineDone(l.x1, l.y1, x2, y2)
       THEN [l EXCEPT !.canvas = s, !.status = "break"]
       ELSE [canvas |-> s,
             x1 |-> IF stepx THEN l.x1 + k.sx ELSE l.x1,
             y1 |-> IF stepy THEN l.y1 + k.sy ELSE l.y1,
             err |-> l.err - (IF stepx THEN k.dy ELSE 0)
                           + (IF stepy THEN k.dx ELSE 0),
             status |-> "loop"]

\* Up to n iterations of the loop.
RECURSIVE LineBlock(_, _, _, _, _, _)
LineBlock(l, x2, y2, k, on, n) ==
    IF n = 0 \/ l.status # "loop" THEN l
    ELSE LineBlock(LineStep(l, x2, y2, k, on), x2, y2, k, on, n - 1)

\* The loop, followed in blocks of LineBlockLen iterations for up to left
\* iterations.
RECURSIVE DrawLineFrom(_, _, _, _, _, _)
DrawLineFrom(l, x2, y2, k, on, left) ==
    IF left <= 0 \/ l.status # "loop" THEN l
    ELSE DrawLineFrom(LineBlock(l, x2, y2, k, on, LineBlockLen), x2, y2, k,
                      on, left - LineBlockLen)

\* Canvas.draw_line: the canvas, and whether the loop has come to its break.
DrawLine(c, x1, y1, x2, y2, on) ==
    LET k == LineSlope(x1, y1, x2, y2)
        l == DrawLineFrom([canvas |-> c, x1 |-> x1, y1 |-> y1,
                           err |-> k.dx - k.dy, status |-> "loop"],
                          x2, y2, k, on, LineSteps(k))
    IN [canvas |-> l.canvas, finished |-> l.status = "break"]

\* The endpoints: the corners of the display, points inside it and points
\* off each of its sides.
LineXs == {-2, 0, 10, WIDTH - 1, WIDTH + 1}
LineYs == {-2, 0, 10, HEIGHT - 1, HEIGHT + 1}

\* canvas.draw_line(x1, y1, x2, y2, on) as the canvas's first or second
\* operation.
CanvasDrawLine ==
    /\ canvasCall.op \in {"init", "draw"}
    /\ canvasOps < MaxCanvasOps
    /\ \E x1 \in LineXs, y1 \in LineYs, x2 \in LineXs, y2 \in LineYs,
          on \in BOOLEAN :
         \E r \in {DrawLine(canvas, x1, y1, x2, y2, on)} :
            Studied(r.canvas,
                    [NoCall EXCEPT !.op = "draw_line", !.x = x1, !.y = y1,
                                   !.data = <<x2, y2>>, !.on = on,
                                   !.got = r.finished])

NextLine ==
    \/ CanvasNew
    \/ CanvasFill
    \/ CanvasDrawLine

SpecLine == Init /\ [][NextLine]_vars

\* =============================================================== SpecApi
\* The profile manager as the daemon and its REST server use it: profiles
\* are saved and activated, listed and read through the API, and a button
\* mapping of the active profile is edited.

\* ProfileManager.list_profiles: the stems of the directory's files, in an
\* order the file system chooses.
ListProfiles(pm) ==
    {order \in [1..Cardinality(DOMAIN pm.files) -> DOMAIN pm.files] :
        \A i, j \in DOMAIN order : i # j => order[i] # order[j]}

\* G13Server._api_list_profiles: load_profile(name) for every name listed;
\* a profile that cannot be loaded is listed without its description.
RECURSIVE ApiListProfilesFrom(_, _, _)
ApiListProfilesFrom(pm, names, i) ==
    IF i > Len(names) THEN pm
    ELSE ApiListProfilesFrom(
             [LoadProfile(pm, names[i]) EXCEPT !.raised = FALSE], names, i + 1)

ApiListProfiles(pm, names) == ApiListProfilesFrom(pm, names, 1)

\* G13Server._api_get_profile: load_profile(name); 404 if it is not found.
ApiGetProfile(pm, name) ==
    [LoadProfile(pm, name) EXCEPT !.raised = FALSE,
                                  !.ret = IF ProfileExists(pm, name)
                                          THEN "200" ELSE "404"]

\* profile.mappings[button] = key
WithMapping(profile, button, key) ==
    [f \in DOMAIN profile \cup {"mappings"} |->
        IF f = "mappings" THEN <<button, key>> ELSE profile[f]]

\* G13Daemon.set_button_mapping
SetButtonMapping(pm, button, key) ==
    IF pm.current_profile.is_none THEN [pm EXCEPT !.ret = "False"]
    ELSE [SaveProfile(pm, WithMapping(pm.current_profile, button, key),
                      pm.current_name) EXCEPT !.ret = "True"]

\* G13Daemon.load_profile: a profile is activated.
ApiActivate ==
    \E name \in InternalNames :
        StoreProfiles(LoadProfile(ProfileManager, name), "load", name)

\* A profile is saved under its own name.
ApiSave ==
    \E internal \in InternalNames, description \in {"old", "new"} :
        StoreProfiles(SaveProfile(ProfileManager,
                                  ProfileData(internal, description), ""),
                      "save", internal)

\* GET /api/profiles
ApiList ==
    \E names \in ListProfiles(ProfileManager) :
        StoreProfiles(ApiListProfiles(ProfileManager, names), "api_list", "")

\* GET /api/profiles/{name}
ApiGet ==
    \E name \in InternalNames \cup {"missing"} :
        StoreProfiles(ApiGetProfile(ProfileManager, name), "api_get", name)

\* A client or the GUI sets a button mapping.
ApiSetMapping ==
    \E key \in {"KEY_A", "KEY_B"} :
        StoreProfiles(SetButtonMapping(ProfileManager, "G1", key),
                      "set_button_mapping", current_name)

NextApi ==
    \/ ApiActivate
    \/ ApiSave
    \/ ApiList
    \/ ApiGet
    \/ ApiSetMapping

SpecApi == Init /\ [][NextApi]_vars

\* =============================================================== claims
Count(seq, e) == Cardinality({i \in DOMAIN seq : seq[i] = e})
DirEvents(seq) == SelectSeq(seq, LAMBDA e : e \in Directions)

\* The buttons the navigation layer tracks, by the bit of the report that
\* carries each.
TrackedButtons ==
    { [event |-> "STICK_PRESS", byte |-> 7, bit |-> 3],
      [event |-> "BUTTON_BD",   byte |-> 6, bit |-> 0],
      [event |-> "BUTTON_LEFT", byte |-> 7, bit |-> 1],
      [event |-> "BUTTON_M1",   byte |-> 6, bit |-> 5],
      [event |-> "BUTTON_M2",   byte |-> 6, bit |-> 6],
      [event |-> "BUTTON_M3",   byte |-> 6, bit |-> 7],
      [event |-> "BUTTON_MR",   byte |-> 7, bit |-> 0] }

\* The button's bit in a report; clear when there is no report.
BitOf(report, b) == report # <<>> /\ BitSet(Byte(report, b.byte), b.bit)

\* The stick position of the last accepted report.
LastX == Byte(lastValid, 1)
LastY == Byte(lastValid, 2)
Deflection(v) == IF v >= STICK_CENTER THEN v - STICK_CENTER ELSE STICK_CENTER - v

\* C1: for every tracked button, a report of at least 8 bytes emits exactly
\* one event when the button's bit is set and was clear in the previously
\* processed report (or there was none), and no event when the bit is
\* unchanged or was cleared.
C1_RisingEdgeOnly ==
    [][step' = "report" =>
        \A b \in TrackedButtons :
            Count(emitted', b.event) =
                IF BitOf(lastValid', b) /\ ~BitOf(lastValid, b) THEN 1 ELSE 0]_vars

\* A report that presses BD and the stick button after an earlier report.
C1_Witness ==
    /\ step = "report"
    /\ now > 0
    /\ Count(emitted, "BUTTON_BD") = 1
    /\ Count(emitted, "STICK_PRESS") = 1

\* C2: processing a report emits one direction event when the computed
\* direction is not the centre and differs from the held direction, and no
\* direction event otherwise (same direction, or back to the centre).
C2_DirectionOnChange ==
    [][step' = "report" =>
        LET d == StickDirection(Byte(lastValid', 1), Byte(lastValid', 2)) IN
        DirEvents(emitted') =
            IF d # "None" /\ d # repeat_direction THEN <<d>> ELSE <<>>]_vars

\* A report, not the first, that registers a new direction.
C2_Witness ==
    /\ step = "report"
    /\ now > READ_TIMEOUT_MS
    /\ DirEvents(emitted) = <<"STICK_RIGHT">>
    /\ repeat_start_time = now

\* C3 (the claim as stated): with the direction held and only read timeouts
\* since it was registered, every window of k repeat intervals that starts
\* at or after the end of the initial delay and has passed holds exactly k
\* repeat events.
RepeatsIn(a, b) ==
    Cardinality({i \in DOMAIN repeatTimes :
                    a <= repeatTimes[i] /\ repeatTimes[i] < b})
C3_OneRepeatPerInterval ==
    (quiet /\ repeat_direction # "None") =>
        \A i \in 0..(2 * MaxTicks), k \in 1..MaxTicks :
            LET w == repeat_start_time + STICK_REPEAT_DELAY + 50 * i IN
            (w + k * STICK_REPEAT_RATE <= now) =>
                RepeatsIn(w, w + k * STICK_REPEAT_RATE) = k

\* C4 (the claim as stated): whatever the device delivers, a direction held
\* for the initial delay and one more poll has produced a repeat event,
\* when no read failed and no report was rejected.
C4_RepeatUnderAnyTraffic ==
    (/\ repeat_direction # "None"
     /\ ~failed /\ caught = "none"
     /\ now - repeat_start_time >= STICK_REPEAT_DELAY + READ_TIMEOUT_MS)
        => last_repeat_time > repeat_start_time

\* C5: when both axes are beyond the threshold the direction is the
\* vertical one.
C5_VerticalPriority ==
    (/\ step = "report"
     /\ Deflection(LastX) > STICK_THRESHOLD
     /\ Deflection(LastY) > STICK_THRESHOLD)
        => LET v == IF LastY < STICK_CENTER THEN "STICK_UP" ELSE "STICK_DOWN"
           IN repeat_direction = v /\ emitted = <<v>>

\* Full right and full up at once.
C5_Witness ==
    /\ step = "report"
    /\ LastX = 255 /\ LastY = 0
    /\ repeat_direction = "STICK_UP"

\* C6: a position less than the threshold from the centre on both axes
\* registers no direction and emits nothing; a position more than the
\* threshold from the centre on an axis registers exactly one direction.
C6_DeadZone ==
    step = "report" =>
        /\ (Deflection(LastX) < STICK_THRESHOLD /\ Deflection(LastY) < STICK_THRESHOLD)
              => (repeat_direction = "None" /\ emitted = <<>>)
        /\ (Deflection(LastX) > STICK_THRESHOLD \/ Deflection(LastY) > STICK_THRESHOLD)
              => (repeat_direction \in Directions /\ emitted = <<repeat_direction>>)

\* The last position inside the band on both axes.
C6_Witness ==
    /\ step = "report"
    /\ LastX = 79 /\ LastY = 177
    /\ repeat_direction = "None"

\* C7: once a report inside the dead zone is processed the held direction
\* is cleared, and no poll emits a direction event (a timeout emits nothing
\* at all) until a report registers a direction again.
C7_CentreCancelsRepeat ==
    (lastValid # <<>> /\ StickDirection(LastX, LastY) = "None") =>
        /\ repeat_direction = "None"
        /\ DirEvents(emitted) = <<>>
        /\ step = "timeout" => emitted = <<>>

\* A timeout after the stick came back to the centre from a direction that
\* had been repeating, later than one repeat interval after its last repeat.
C7_Witness ==
    /\ step = "timeout"
    /\ lastValid # <<>> /\ StickDirection(LastX, LastY) = "None"
    /\ last_repeat_time > repeat_start_time
    /\ now - last_repeat_time >= STICK_REPEAT_RATE

C9_ShortReportSkipped ==
    [][step' = "short" => (emitted' = <<>> /\ UNCHANGED handlerVars)]_vars

\* A rejected report met with a direction held and buttons down.
C9_Witness ==
    /\ step = "short"
    /\ repeat_direction # "None"
    /\ stick_pressed
    /\ WasPressed(button_state, "BD")

\* C10 (the claim as stated): no two ScreenManager operations execute at the
\* same time: at most one thread is inside on_input, update, render or
\* force_render, so at most one render call draws on the canvas.
C10_OneOperationAtATime ==
    Cardinality({t \in Threads : smOp[t] # "none"}) <= 1

\* The screens of a stack, whatever their dirty flags.
StackScreens(s) == [i \in DOMAIN s |-> [s[i] EXCEPT !.is_dirty = FALSE]]

\* C11: after any sequence of push, pop and navigation events the stack
\* holds at least one screen and its bottom is the idle screen created at
\* connect; pop on a one-element stack changes nothing.
C11_StackNeverEmpty ==
    /\ [](Len(stack) >= 1 /\ stack[1] = [ConnectStack[1] EXCEPT
                                            !.is_dirty = stack[1].is_dirty]
                          /\ stack[1].name = "idle")
    /\ [][(navOp' = "pop" /\ Len(stack) = 1)
            => (stack' = stack /\ overlay' = overlay)]_vars
\* pop was called on a stack that held the idle screen alone.
C11_Witness ==
    navOp = "pop" /\ navOut.depth_before = 1 /\ Len(stack) = 1

\* C12: every navigation event is delivered to exactly one screen: to the
\* overlay when the overlay slot is occupied, and then to no screen of the
\* stack, otherwise to the top of the stack; an event the screen returns
\* unhandled is delivered to no screen lower in the stack.
C12_OneScreenPerEvent ==
    [][navOp' = "on_input" =>
        navOut'.delivered = <<IF overlay # NoScreen THEN 0 ELSE Len(stack)>>]_vars
\* An event the top of a stack of several screens returned unhandled.
C12_Witness ==
    /\ navOp = "on_input"
    /\ ~navOut.handled
    /\ navOut.overlay_before = "None"
    /\ navOut.depth_before >= 2
    /\ navOut.delivered = <<navOut.depth_before>>

C14_ToastInputDismisses ==
    [][(navOp' = "on_input" /\ overlay.name = "toast"
            /\ uiNow < overlay_expiry) =>
        /\ overlay' = NoScreen
        /\ navOut'.handled
        /\ navOut'.delivered = <<0>>
        /\ navOut'.calls = <<>>
        /\ StackScreens(stack') = StackScreens(stack)]_vars
\* The back button, which pops a menu, was given to a toast over a menu.
C14_Witness ==
    /\ navOp = "on_input"
    /\ navEvent = "BUTTON_BD"
    /\ navOut.overlay_before = "toast"
    /\ navOut.handled
    /\ overlay = NoScreen
    /\ Len(stack) >= 2
    /\ Len(stack) = navOut.depth_before

\* What one event does to a confirm dialog, as the claim C15 has it: left
\* and right toggle the choice; press calls on_confirm once exactly when
\* the choice is Yes, and otherwise on_cancel if there is one; back calls
\* on_cancel if there is one and never on_confirm; press and back call at
\* most one callback and leave the overlay slot empty.
ConfirmDialogStep ==
    LET d == overlay
        calls == navOut'.calls
        called(cb) == <<[cb |-> cb, item |-> 0]>>
        cancel == IF d.has_cancel THEN called("on_cancel") ELSE <<>>
    IN /\ navEvent' \in {"STICK_LEFT", "STICK_RIGHT"} =>
            /\ overlay' = [d EXCEPT !.selected = 1 - d.selected,
                                    !.is_dirty = TRUE]
            /\ calls = <<>>
       /\ navEvent' = "STICK_PRESS" =>
            /\ calls = IF d.selected = 1 THEN called("on_confirm") ELSE cancel
            /\ overlay' = NoScreen
       /\ navEvent' = "BUTTON_BD" =>
            /\ calls = cancel
            /\ overlay' = NoScreen

\* C15: a confirm dialog starts on No; each STICK_LEFT or STICK_RIGHT
\* toggles the choice; STICK_PRESS calls on_confirm once if and only if the
\* choice is Yes and otherwise on_cancel when one was given; BUTTON_BD calls
\* on_cancel and never on_confirm; a commit or cancel never calls both and
\* always ends with the dialog dismissed.
C15_ConfirmDialog ==
    /\ [](navOp = "show_confirm" => overlay.selected = 0)
    /\ [][(navOp' = "on_input" /\ overlay.name = "confirm")
            => ConfirmDialogStep]_vars

\* The same, for the events whose callback returns: it holds, so the
\* dialog's choice and callbacks are as C15 says and only the dismissal
\* after a raising callback is not.
C15_WhenCallbackReturns ==
    /\ [](navOp = "show_confirm" => overlay.selected = 0)
    /\ [][(navOp' = "on_input" /\ overlay.name = "confirm"
             /\ ~navOut'.raised) => ConfirmDialogStep]_vars
\* Yes was chosen and committed, and on_confirm returned.
C15_ReturnsWitness ==
    /\ navOp = "on_input"
    /\ navEvent = "STICK_PRESS"
    /\ navOut.overlay_before = "confirm"
    /\ navOut.calls = <<[cb |-> "on_confirm", item |-> 0]>>
    /\ ~navOut.raised
    /\ overlay = NoScreen

\* C16: on a menu screen with N >= 1 items, N STICK_DOWN events in a row
\* bring the selection back to the index they began at; STICK_UP at index
\* 0 selects index N-1 and STICK_DOWN at index N-1 selects index 0; the
\* selected index is always in 0..N-1.
C16_SelectionWraps ==
    /\ [](Len(stack) >= 2 /\ Len(stack[2].items) >= 1 =>
            LET scr == stack[2]
                n == Len(scr.items)
            IN /\ scr.selected_index \in 0..(n - 1)
               /\ run.downs = n => scr.selected_index = run.start)
    /\ [][(navOp' = "on_input" /\ Len(stack) = 2
             /\ Len(stack[2].items) >= 1) =>
            LET scr == stack[2]
                n == Len(scr.items)
            IN /\ (navEvent' = "STICK_UP" /\ scr.selected_index = 0)
                    => stack'[2].selected_index = n - 1
               /\ (navEvent' = "STICK_DOWN" /\ scr.selected_index = n - 1)
                    => stack'[2].selected_index = 0]_vars
\* A menu longer than its window was walked all the way round from an
\* index in its middle.
C16_Witness ==
    /\ Len(stack) = 2
    /\ navOp = "on_input"
    /\ navEvent = "STICK_DOWN"
    /\ Len(stack[2].items) > VISIBLE_ITEMS
    /\ run.downs = Len(stack[2].items)
    /\ run.start > 0
    /\ stack[2].selected_index = run.start

\* C17: after any sequence of STICK_UP and STICK_DOWN events on a menu
\* screen of any length, the selected item is inside the scroll window:
\* 0 <= scroll_offset <= selected_index < scroll_offset + VISIBLE_ITEMS.
C17_SelectionVisible ==
    \A i \in DOMAIN stack :
        stack[i].name = "menu" =>
            /\ stack[i].scroll_offset >= 0
            /\ stack[i].scroll_offset <= stack[i].selected_index
            /\ stack[i].selected_index < stack[i].scroll_offset + VISIBLE_ITEMS
\* The window of a menu longer than it has scrolled down to keep the
\* selection, by a STICK_DOWN, at its last line.
C17_Witness ==
    /\ Len(stack) = 2
    /\ stack[2].name = "menu"
    /\ navOp = "on_input"
    /\ navEvent = "STICK_DOWN"
    /\ stack[2].scroll_offset >= 1
    /\ stack[2].selected_index = stack[2].scroll_offset + VISIBLE_ITEMS - 1

\* C18: STICK_PRESS on a menu screen activates the selected item and no
\* other: an enabled item with a submenu factory has the factory called
\* once and the screen it returns pushed; an enabled item with only an
\* action has the action called once; a disabled item has nothing called
\* and the stack is as it was; no callback of another item runs and the
\* selected index does not change.
C18_PressActivatesSelected ==
    [][(navOp' = "on_input" /\ navEvent' = "STICK_PRESS"
          /\ overlay = NoScreen /\ IsMenu(stack[Len(stack)])
          /\ stack[Len(stack)].items # <<>>) =>
        LET pos == Len(stack)
            scr == stack[pos]
            sel == scr.selected_index
            item == scr.items[sel + 1]
            calls == navOut'.calls
        IN /\ (item.enabled /\ item.submenu # "None") =>
                /\ calls = <<[cb |-> "submenu", item |-> sel]>>
                /\ StackScreens(stack') =
                     Append(StackScreens(stack),
                            [MakeScreen(item.submenu) EXCEPT
                                !.is_dirty = FALSE])
           /\ (item.enabled /\ item.submenu = "None"
                 /\ item.action # "None") =>
                calls = <<[cb |-> "action", item |-> sel]>>
           /\ ~item.enabled =>
                (calls = <<>> /\ StackScreens(stack') = StackScreens(stack))
           /\ \A c \in Range(calls) : c.item = sel
           /\ pos <= Len(stack') => stack'[pos].selected_index = sel]_vars
\* An enabled item that has a submenu factory and an action as well, not
\* the first of its menu, was pressed: the factory alone was called.
C18_Witness ==
    /\ navOp = "on_input"
    /\ navEvent = "STICK_PRESS"
    /\ Len(stack) = 3
    /\ stack[3].name = "leaf"
    /\ stack[2].selected_index >= 1
    /\ stack[2].items[stack[2].selected_index + 1].action = "act"
    /\ navOut.calls = <<[cb |-> "submenu", item |-> stack[2].selected_index]>>

\* C19: on a render tick, after update(dt), a frame is drawn and written
\* to the LCD only if the relevant dirty flag is set (the overlay's when
\* there is an overlay, otherwise the active screen's) or the overlay
\* expired in this tick; a tick with no flag set and no expiry writes no
\* frame; force_render() writes a frame whatever the flags are.
C19_RenderOnlyWhenDirty ==
    [][/\ navOp' = "tick" =>
            /\ navOut'.frames =
                 IF navOut'.dirty_after_update \/ navOut'.expired
                 THEN 1 ELSE 0
            /\ (overlay # NoScreen /\ ~navOut'.expired) =>
                 navOut'.dirty_after_update = overlay.is_dirty
            /\ (overlay = NoScreen /\ stack[Len(stack)].name # "idle") =>
                 navOut'.dirty_after_update = stack[Len(stack)].is_dirty
       /\ navOp' = "force_render" => navOut'.frames = 1]_vars
\* A tick wrote nothing: the toast in the overlay slot was already drawn,
\* though the screen under it is dirty.
C19_Witness ==
    /\ navOp = "tick"
    /\ navOut.frames = 0
    /\ ~navOut.expired
    /\ overlay.name = "toast"
    /\ ~overlay.is_dirty
    /\ stack[Len(stack)].is_dirty

\* The buttons a report can carry.
AllButtons == {b.name : b \in Range(BUTTON_MAP)}

Pixels(c) == (0..(c.width - 1)) \X (0..(c.height - 1))

\* C21: on the 160x43 canvas in any state, set_pixel(x, y, v) with (x, y) in
\* range makes get_pixel(x, y) return v and leaves every other pixel of the
\* canvas as it was.
C21_SetPixelSetsOnePixel ==
    (canvasCall.op = "set_pixel"
        /\ InCanvas(canvasPrev, canvasCall.x, canvasCall.y)) =>
        /\ canvasPrev.width = WIDTH /\ canvasPrev.height = HEIGHT
        /\ canvasCall.got = canvasCall.on
        /\ \A p \in Pixels(canvas) :
               GetPixel(canvas, p[1], p[2]) =
                   IF p = <<canvasCall.x, canvasCall.y>>
                       THEN canvasCall.on
                       ELSE GetPixel(canvasPrev, p[1], p[2])

\* A pixel that was on is set off on a canvas that has other pixels on.
C21_Witness ==
    /\ canvasCall.op = "set_pixel"
    /\ InCanvas(canvasPrev, canvasCall.x, canvasCall.y)
    /\ ~canvasCall.on
    /\ GetPixel(canvasPrev, canvasCall.x, canvasCall.y)
    /\ ~GetPixel(canvas, canvasCall.x, canvasCall.y)
    /\ \E p \in Pixels(canvas) : GetPixel(canvas, p[1], p[2])

\* C22: for coordinates outside the canvas, set_pixel raises nothing and
\* changes no byte of the buffer, and get_pixel raises nothing and returns
\* false.
C22_OutOfRangeIgnored ==
    (canvasCall.op = "set_pixel"
        /\ ~InCanvas(canvasPrev, canvasCall.x, canvasCall.y)) =>
        /\ ~canvas.raised
        /\ canvas.buffer = canvasPrev.buffer
        /\ canvasCall.got = FALSE

\* set_pixel(160, y, True): one past the right edge, where the byte index
\* would be that of a pixel of the next row block.
C22_Witness ==
    /\ canvasCall.op = "set_pixel"
    /\ canvasCall.x = WIDTH
    /\ canvasCall.y \in 0..(HEIGHT - 1)
    /\ canvasCall.on
    /\ ByteIdx(canvasCall.x, canvasCall.y) < FRAMEBUFFER_SIZE
    /\ ~GetPixel(canvasPrev, 0, canvasCall.y + 8)

\* C23: to_bytes() loaded into a fresh canvas with from_bytes() gives a
\* canvas that agrees with the original at every pixel and whose to_bytes()
\* equals the original bytes.
C23_RoundTrip ==
    canvasCall.op = "round_trip" =>
        /\ canvasCall.data = ToBytes(canvas)
        /\ ToBytes(canvasCall.copy) = ToBytes(canvas)
        /\ \A p \in Pixels(canvas) :
               GetPixel(canvasCall.copy, p[1], p[2]) =
                   GetPixel(canvas, p[1], p[2])

\* A canvas with pixels on and off in the last rows and bits set in the
\* rows below the display's last goes through the round trip.
C23_Witness ==
    /\ canvasCall.op = "round_trip"
    /\ \E x \in 0..(WIDTH - 1) : GetPixel(canvas, x, HEIGHT - 1)
    /\ \E x \in 0..(WIDTH - 1) : ~GetPixel(canvas, x, HEIGHT - 1)
    /\ \E i \in 1..FRAMEBUFFER_SIZE :
           i > ByteIdx(0, HEIGHT - 1) /\ TestBit(canvas.buffer[i], 7)

\* C24: after any sequence of canvas operations the framebuffer is 960 bytes
\* long and to_bytes() returns 960 bytes; from_bytes keeps the first 960
\* bytes of a longer input, pads a shorter one with zero bytes, and never
\* fails.
C24_BufferIs960Bytes ==
    /\ canvasCall.op # "none" =>
           /\ Len(canvas.buffer) = FRAMEBUFFER_SIZE
           /\ Len(ToBytes(canvas)) = FRAMEBUFFER_SIZE
           /\ ~canvas.raised
    /\ (canvasCall.op = "from_bytes" \/ canvasCall.data # <<>>) =>
           \A i \in 1..FRAMEBUFFER_SIZE :
               canvas.buffer[i] = IF i <= Len(canvasCall.data)
                                      THEN canvasCall.data[i] ELSE 0

\* from_bytes of an input longer than 960 bytes with bits beyond byte 960
C24_Witness ==
    /\ canvasCall.op = "from_bytes"
    /\ Len(canvasCall.data) > FRAMEBUFFER_SIZE
    /\ canvasCall.data[FRAMEBUFFER_SIZE + 1] # 0
    /\ canvasPrev.buffer # canvas.buffer

\* from_bytes of an input shorter than 960 bytes on a canvas that had bits
\* set beyond the input's length
C24_ShortWitness ==
    /\ canvasCall.op = "from_bytes"
    /\ Len(canvasCall.data) \in 1..(FRAMEBUFFER_SIZE - 1)
    /\ canvasPrev.buffer[FRAMEBUFFER_SIZE] # 0
    /\ canvas.buffer[FRAMEBUFFER_SIZE] = 0

\* C25: after dest.blit(src, x, y) a pixel of dest is on iff it was on before
\* or the src pixel mapped onto it is on; no pixel of dest is turned off and
\* src pixels that map outside dest are ignored.
C25_BlitIsAdditive ==
    canvasCall.op = "blit" =>
        /\ ~canvas.raised
        /\ \A p \in Pixels(canvas) :
               GetPixel(canvas, p[1], p[2]) =
                   (GetPixel(canvasPrev, p[1], p[2])
                       \/ GetPixel(canvasCall.other, p[1] - canvasCall.x,
                                   p[2] - canvasCall.y))

\* A source with on and off pixels is blitted partly outside a canvas that
\* has pixels on under the source's off pixels, and pixels are turned on.
C25_Witness ==
    /\ canvasCall.op = "blit"
    /\ canvasCall.x + canvasCall.other.width > WIDTH
    /\ \E p \in Pixels(canvasCall.other) :
           /\ ~GetPixel(canvasCall.other, p[1], p[2])
           /\ GetPixel(canvasPrev, p[1] + canvasCall.x, p[2] + canvasCall.y)
    /\ \E p \in Pixels(canvas) :
           GetPixel(canvas, p[1], p[2]) /\ ~GetPixel(canvasPrev, p[1], p[2])

\* What the claim counts as cleaned up.
CleanedUp ==
    {"input_handler.stop", "led_controller.stop_effect",
     "render_thread.join", "device.close"} \subseteq cleaned

\* C26: whenever run()'s loop has ended and run() has returned, whether
\* stop() was called from another thread or a signal was received, the
\* input handler is stopped, the LED effect is stopped, the render thread is
\* joined and the device is closed.
C26_CleanupBeforeReturn == runPc = "returned" => CleanedUp

\* What holds: when no signal was received, a call of stop() from another
\* thread does the whole cleanup before it returns, and nothing is cleaned
\* up while _running is still set.
C26_StopCleansWhenRunning ==
    /\ (stopPc["other"] = "done" /\ ~signalled) => CleanedUp
    /\ cleaned # {} => ~running

\* stop() from another thread has returned after the whole cleanup.
C26_StopWitness ==
    /\ stopPc["other"] = "done"
    /\ CleanedUp
    /\ ~signalled

\* C27: after load_profile(name) followed by delete_profile(name), neither
\* of which raised, current_profile is None, whatever the name field stored
\* in the profile is.
C27_DeleteClearsCurrent ==
    (profCall.op = "delete" /\ ~profCall.raised
        /\ profBefore.op = "load" /\ ~profBefore.raised
        /\ profBefore.name = profCall.name) =>
        current_profile = NoProfile

\* What holds: the same for the files whose name field is their file name.
C27_WhenNamesAgree ==
    (profCall.op = "delete" /\ ~profCall.raised
        /\ profBefore.op = "load" /\ ~profBefore.raised
        /\ profBefore.name = profCall.name
        /\ profBefore.files[profCall.name].name = profCall.name) =>
        current_profile = NoProfile

\* A loaded profile whose name field is its file name has been deleted.
C27_AgreeWitness ==
    /\ profCall.op = "delete" /\ ~profCall.raised
    /\ profBefore.op = "load" /\ ~profBefore.raised
    /\ profBefore.name = profCall.name
    /\ profBefore.files[profCall.name].name = profCall.name
    /\ current_profile = NoProfile

\* The k-th name import_profile tries after the target itself.
Numbered(target, k) == target \o "_" \o ToString(k)

\* C28: import_profile never overwrites an existing profile: when the target
\* name is taken it stores the imported profile under the first free name of
\* the form name_1, name_2, ... and returns that name, every profile that
\* existed before keeps its content, and the search ends (within as many
\* tries as there are profiles).
C28_ImportNeverOverwrites ==
    (profCall.op = "import" /\ ~profCall.raised) =>
        LET before == profBefore.files
            target == profCall.name
            n == Cardinality(DOMAIN before)
        IN /\ \A f \in DOMAIN before :
                  f \in DOMAIN files /\ files[f] = before[f]
           /\ profCall.ret \notin DOMAIN before
           /\ DOMAIN files = DOMAIN before \cup {profCall.ret}
           /\ files[profCall.ret].description = "new"
           /\ IF target \notin DOMAIN before
                  THEN profCall.ret = target
                  ELSE \E k \in 1..n :
                           /\ profCall.ret = Numbered(target, k)
                           /\ \A j \in 1..(k - 1) :
                                  Numbered(target, j) \in DOMAIN before

\* The target and target_1 are both taken: the profile is stored as target_2.
C28_Witness ==
    /\ profCall.op = "import" /\ ~profCall.raised
    /\ profCall.name \in DOMAIN profBefore.files
    /\ Numbered(profCall.name, 1) \in DOMAIN profBefore.files
    /\ profCall.ret = Numbered(profCall.name, 2)
    /\ files[profCall.ret].description = "new"

\* C29: no repeat event is emitted earlier than the 400 ms initial delay
\* after the moment the held direction was registered, whatever polls happen
\* in between: a repeat (an event emitted by an iteration that timed out) is
\* at least STICK_REPEAT_DELAY after repeat_start_time; repeat_start_time is
\* set to the time of the report whenever a report registers a direction
\* other than the held one, also when it changes directly from one direction
\* to another, and is set at no other moment.
C29_NoRepeatBeforeDelay ==
    [][ /\ (step' = "timeout" /\ emitted' # <<>>) =>
               /\ emitted' = <<repeat_direction>>
               /\ repeat_start_time' = repeat_start_time
               /\ now' - repeat_start_time >= STICK_REPEAT_DELAY
        /\ (repeat_direction' # repeat_direction
                /\ repeat_direction' # "None") =>
               /\ step' = "report"
               /\ repeat_start_time' = now'
        /\ repeat_start_time' # repeat_start_time =>
               /\ repeat_direction' # repeat_direction
               /\ repeat_direction' # "None" ]_vars

\* A repeat has been emitted for a direction registered after the first
\* poll, 400 ms or more after it was registered.
C29_Witness ==
    /\ step = "timeout"
    /\ emitted # <<>>
    /\ repeat_start_time > READ_TIMEOUT_MS
    /\ now - repeat_start_time >= STICK_REPEAT_DELAY

\* The events a handler in state h emits for a sequence of reports.
RECURSIVE EventsOf(_, _)
EventsOf(h, reports) ==
    IF reports = <<>> THEN <<>>
    ELSE LET after == ProcessReport([h EXCEPT !.out = <<>>],
                                    Head(reports), 0, FALSE)
         IN after.out \o EventsOf(after, Tail(reports))

\* InputHandler.__init__
NewHandler ==
    [repeat_direction |-> "None", repeat_start_time |-> 0,
     last_repeat_time |-> 0, stick_pressed |-> FALSE, button_state |-> <<>>,
     out |-> <<>>, cb_failed |-> FALSE]

\* C30: every report the device delivers is processed by the InputHandler,
\* none is consumed only by the daemon's main read loop: once the device's
\* queue is empty the handler has processed the whole stream, and has
\* emitted the navigation event of every rising edge in it.
C30_EveryReportReachesHandler ==
    pending = <<>> =>
        /\ seen = stream
        /\ events = EventsOf(NewHandler, stream)

\* What holds: every report is read by exactly one of the two loops, in the
\* order of delivery, and the handler emits the events of the reports it
\* has read.
C30_EachReportReadOnce ==
    /\ Len(seen) + key_count + Len(pending) = Len(stream)
    /\ events = EventsOf(NewHandler, seen)

\* The handler has read every report of a stream with a rising edge.
C30_HandlerOnlyWitness ==
    /\ pending = <<>>
    /\ seen = stream
    /\ key_count = 0
    /\ events # <<>>

\* C31: an exception raised by update() or render() in a render tick does
\* not end the render loop.  The thread leaves the loop only with the
\* running flag cleared; the tick that raised leaves the stack and the
\* overlay as the failed call left them; the except clause sleeps, changes
\* no screen state and leads back to the loop test, which begins the next
\* tick while the flag is set.
C31_RaiseDoesNotEndLoop ==
    /\ [](renderLoopPc = "return" => ~renderRunning)
    /\ [][/\ (renderLoopPc = "try" /\ renderLoopPc' # "try"
              /\ renderLast'.ended # "ok")
             => /\ renderLoopPc' = "except_sleep"
                /\ stack' = renderLast'.stack
                /\ overlay' = renderLast'.overlay
          /\ (renderLoopPc = "except_sleep" /\ renderLoopPc' # "except_sleep")
             => /\ renderLoopPc' = "while"
                /\ UNCHANGED <<stack, overlay, overlay_expiry>>
          /\ (renderLoopPc = "while" /\ renderLoopPc' # "while")
             => renderLoopPc' = (IF renderRunning THEN "try" ELSE "return")
         ]_vars

\* A tick has raised with a toast over the menu, and the next tick has
\* begun.
C31_Witness ==
    /\ renderLoopPc = "try"
    /\ renderTicks >= 2
    /\ renderLast.ended \in {"update", "render"}
    /\ renderLast.overlay # NoScreen
    /\ renderRunning

C33_AtMostOnePollThread == Cardinality(Executing) <= 1

\* What holds of C33: while no join of stop() has timed out, at most one
\* poll thread is executing, and it is the one _thread names.
C33_OneThreadUnlessJoinTimedOut ==
    ~joinTimedOut =>
        /\ Cardinality(Executing) <= 1
        /\ \A t \in Executing : handler_thread = t

\* start() has been called with the flag set, and again after a stop()
\* whose join did not time out.
C33_RestartWitness ==
    /\ ~joinTimedOut
    /\ loopPc[1] = "exited"
    /\ loopPc[2] = "body"
    /\ handler_running

\* C34: the toast that a confirm dialog's on_confirm or on_cancel callback
\* shows is the overlay after the dialog's on_input has returned.
C34_CallbackToastStays ==
    navOp = "confirm_shows" => overlay.name = "toast"

\* What holds of C34: the dialog's dismiss_overlay() empties the overlay
\* slot, whatever is in it, so the toast the callback has shown is gone
\* when on_input returns; the screen under it is marked for redrawing.
C34_CallbackToastDismissed ==
    navOp = "confirm_shows" =>
        /\ overlay = NoScreen
        /\ Len(navOut.calls) = 1
        /\ navOut.handled
        /\ stack[Len(stack)].is_dirty

\* The on_cancel callback of a dialog has shown a toast on BUTTON_BD.
C34_CancelWitness ==
    /\ navOp = "confirm_shows"
    /\ navEvent = "BUTTON_BD"
    /\ navOut.overlay_before = "confirm"
    /\ navOut.calls = <<[cb |-> "on_cancel", item |-> 0]>>

\* C35: BUTTON_BD on the brightness screen cancels the adjustment: the LED
\* brightness is again what it was when the screen was opened, and the
\* screen is popped.
C35_CancelRestoresBrightness ==
    brightLast = "BUTTON_BD" => (led_level = brightAtOpen /\ ~brightOpen)

\* What holds of C35: BUTTON_BD pops the screen and leaves the LED at the
\* brightness the last preview has set.
C35_CancelKeepsPreview ==
    brightLast = "BUTTON_BD" => (led_level = ledBefore /\ ~brightOpen)

\* The screen was cancelled after previews that changed the brightness.
C35_PreviewKeptWitness ==
    /\ brightLast = "BUTTON_BD"
    /\ ~brightOpen
    /\ led_level # brightAtOpen

\* ------------------------------------------------ the LCD controller (C36)
\* g13_ops/hardware/lcd.py, G13LCD.set_pixel on a 960-byte framebuffer:
\* rows of BYTES_PER_ROW bytes, the leftmost pixel in the highest bit.
BYTES_PER_ROW == WIDTH \div 8
LcdByteIdx(x, y) == (y * BYTES_PER_ROW) + (x \div 8)
LcdBitIdx(x, y) == 7 - (x % 8)

LcdSetPixel(fb, x, y, on) ==
    IF ~(0 <= x /\ x < WIDTH /\ 0 <= y /\ y < HEIGHT) THEN fb
    ELSE [fb EXCEPT ![LcdByteIdx(x, y) + 1] =
                        IF on THEN OrBit(@, LcdBitIdx(x, y))
                        ELSE ClearBit(@, LcdBitIdx(x, y))]

\* C36: for every in-range (x, y), Canvas.set_pixel(x, y) sets the byte
\* and the bit of its 960-byte framebuffer that the LCD controller's
\* set_pixel(x, y) sets in its own: the canvas after set_pixel holds the
\* bytes the controller's framebuffer holds after the same call on the
\* same bytes.
C36_CanvasAndLcdAgree ==
    (canvasCall.op = "set_pixel" /\ InCanvas(canvasPrev, canvasCall.x, canvasCall.y))
        => /\ ByteIdx(canvasCall.x, canvasCall.y)
                = LcdByteIdx(canvasCall.x, canvasCall.y)
           /\ canvasCall.y % 8 = LcdBitIdx(canvasCall.x, canvasCall.y)
           /\ ToBytes(canvas) = LcdSetPixel(ToBytes(canvasPrev), canvasCall.x,
                                            canvasCall.y, canvasCall.on)

\* What holds of C36: both set_pixel write one bit inside the 960 bytes and
\* leave every other bit alone, but not the same bit: a pixel switched on on
\* an empty canvas gives bytes unlike those of the controller.
C36_BothInsideBuffer ==
    (/\ canvasCall.op = "set_pixel"
     /\ InCanvas(canvasPrev, canvasCall.x, canvasCall.y)
     /\ canvasCall.on
     /\ canvasPrev = NewCanvas(WIDTH, HEIGHT))
        => LET x == canvasCall.x
               y == canvasCall.y
               lcd == LcdSetPixel(ToBytes(canvasPrev), x, y, TRUE)
           IN /\ ByteIdx(x, y) < FRAMEBUFFER_SIZE
              /\ LcdByteIdx(x, y) < FRAMEBUFFER_SIZE
              /\ Len(lcd) = FRAMEBUFFER_SIZE
              /\ \A i \in 1..FRAMEBUFFER_SIZE :
                    /\ lcd[i] # 0 <=> i = LcdByteIdx(x, y) + 1
                    /\ ToBytes(canvas)[i] # 0 <=> i = ByteIdx(x, y) + 1
              /\ lcd # ToBytes(canvas)

\* The last visible pixel has been switched on on an empty canvas.
C36_LastPixelWitness ==
    /\ canvasCall.op = "set_pixel"
    /\ canvasCall.x = WIDTH - 1
    /\ canvasCall.y = HEIGHT - 1
    /\ canvasCall.on
    /\ canvasPrev = NewCanvas(WIDTH, HEIGHT)
    /\ LcdByteIdx(WIDTH - 1, HEIGHT - 1) # ByteIdx(WIDTH - 1, HEIGHT - 1)

\* C37: on a canvas of any width and height, set_pixel and get_pixel on
\* coordinates in range for that canvas neither index outside the 960-byte
\* buffer nor raise.
C37_InRangeNeverRaises ==
    (/\ canvasCall.op \in {"set_pixel", "get_pixel"}
     /\ InCanvas(canvasPrev, canvasCall.x, canvasCall.y))
        => /\ ~canvas.raised
           /\ ByteIdx(canvasCall.x, canvasCall.y) < FRAMEBUFFER_SIZE

\* What holds of C37: on a canvas no wider than the display and no higher
\* than the buffer's 48 rows neither call raises, and a pixel that
\* set_pixel has written is read back by get_pixel.
C37_SafeWithinBuffer ==
    (/\ canvasCall.op \in {"set_pixel", "get_pixel"}
     /\ canvas.width <= WIDTH
     /\ canvas.height <= BUFFER_ROWS)
        => /\ ~canvas.raised
           /\ ByteIdx(canvasCall.x, canvasCall.y) < FRAMEBUFFER_SIZE
           /\ canvasCall.op = "set_pixel"
                => GetPixel(canvas, canvasCall.x, canvasCall.y) = canvasCall.on

\* The far corner of the tests' 100 x 30 canvas has been switched on.
C37_TestCanvasWitness ==
    /\ canvasCall.op = "set_pixel"
    /\ canvas.width = TEST_WIDTH
    /\ canvas.height = TEST_HEIGHT
    /\ canvasCall.x = TEST_WIDTH - 1
    /\ canvasCall.y = TEST_HEIGHT - 1
    /\ canvasCall.on
    /\ GetPixel(canvas, canvasCall.x, canvasCall.y)

\* C38: draw_line ends for every pair of endpoints, inside the canvas or
\* not and in either direction, without raising, and each endpoint that
\* lies inside the canvas has the requested pixel state afterwards.
C38_DrawLineEndsWithEndpointsSet ==
    canvasCall.op = "draw_line" =>
        LET x2 == canvasCall.data[1]
            y2 == canvasCall.data[2]
        IN /\ canvasCall.got
           /\ ~canvas.raised
           /\ InCanvas(canvas, canvasCall.x, canvasCall.y)
                => GetPixel(canvas, canvasCall.x, canvasCall.y) = canvasCall.on
           /\ InCanvas(canvas, x2, y2)
                => GetPixel(canvas, x2, y2) = canvasCall.on

\* A line has been cleared on a filled canvas from right to left and from
\* a point below the canvas up to its top row.
C38_Witness ==
    /\ canvasCall.op = "draw_line"
    /\ canvasCall.got
    /\ ~canvasCall.on
    /\ canvasCall.x = WIDTH - 1
    /\ canvasCall.y = HEIGHT + 1
    /\ canvasCall.data = <<10, 0>>
    /\ canvasPrev = Fill(canvasPrev)
    /\ ~GetPixel(canvas, 10, 0)
    /\ GetPixel(canvas, 0, 0)

\* C39: reading profiles through the REST API changes nothing about the
\* active profile: after GET /api/profiles or GET /api/profiles/{name},
\* current_profile and current_name are what they were before the request.
C39_ReadsKeepActiveProfile ==
    profCall.op \in {"api_list", "api_get"} =>
        /\ current_name = profBefore.current_name
        /\ current_profile = profBefore.current_profile

\* What holds of C39: the requests leave the directory alone; a list of a
\* directory that is not empty, and a read of a profile that exists, make
\* a profile they have read the current one; and set_button_mapping saves
\* the current profile, whichever it has become, under current_name.
C39_ReadsActivateWhatTheyRead ==
    /\ profCall.op \in {"api_list", "api_get"} => files = profBefore.files
    /\ (profCall.op = "api_list" /\ DOMAIN files # {})
          => (current_name \in DOMAIN files
              /\ current_profile = files[current_name])
    /\ (profCall.op = "api_get" /\ profCall.ret = "200")
          => (current_name = profCall.name
              /\ current_profile = files[profCall.name])
    /\ (profCall.op = "api_get" /\ profCall.ret = "404")
          => (current_name = profBefore.current_name
              /\ current_profile = profBefore.current_profile)
    /\ (profCall.op = "set_button_mapping" /\ profCall.ret = "True"
        /\ current_name # "")
          => (current_name = profBefore.current_name
              /\ files[current_name] = current_profile)

\* Profile p was active with its mapping edited, a GET of profile q has
\* made q the current profile, and the next set_button_mapping has been
\* saved in q's file.
C39_OtherProfileEditedWitness ==
    /\ profCall.op = "set_button_mapping"
    /\ profCall.ret = "True"
    /\ profBefore.op = "api_get"
    /\ profBefore.name = "q"
    /\ current_name = "q"
    /\ "mappings" \in DOMAIN files["q"]
    /\ "p" \in DOMAIN files
    /\ "mappings" \in DOMAIN files["p"]

====
